---- MODULE Spec2Model ----
(***************************************************************************)
(* A model of the socks2 client library (SOCKS4, SOCKS4A and SOCKS5).      *)
(*                                                                         *)
(* Bytes are the integers 0..255 and every wire message is a sequence of   *)
(* bytes.  A handshake is a sequential process on the calling thread; its  *)
(* position between two blocking stream operations is the variable pc.     *)
(* The proxy is the environment: it chooses the bytes each read returns.   *)
(* The variable wire records, in order, every operation performed on the   *)
(* proxy stream.                                                           *)
(***************************************************************************)
EXTENDS Integers, Sequences, FiniteSets, TLC

VARIABLES
    pc,       \* position of the running call
    call,     \* the arguments of the running call
    wire,     \* the operations performed on the proxy stream, in order
    result,   \* what the call returned to the caller
    handle,   \* the stream handle the caller owns
    applied   \* the last application of a codec function: argument and value

vars == <<pc, call, wire, result, handle, applied>>

-----------------------------------------------------------------------------
(* Bounds of the model *)

\* reply bytes 0..MaxByte (and 255) are the values the proxy may send
MaxByte == 6
\* caller reads or writes made on a returned handle
MaxPayloadOps == 1
\* REP bytes 0..MaxRep (and 255) are the values given to read_response alone
MaxRep == 9
\* domain names of 0..MaxShortDomain bytes (and of 255 and 256) are encoded
MaxShortDomain == 3
\* the longest payload a caller sends in a datagram
MaxPayload == 520
\* calls of send_to on one relay
MaxSendTo == 2

(* Program constants *)

U8Max == 255
MAX_ADDR_LEN == 260
AuthPacketCap == 515

-----------------------------------------------------------------------------
(* Byte strings *)

Rep(n, b) == [i \in 1..n |-> b]

Take(s, n) == SubSeq(s, 1, n)

Drop(s, n) == SubSeq(s, n + 1, Len(s))

\* u16::to_be_bytes / write_u16::<BigEndian>
BeU16(port) == <<port \div 256, port % 256>>

\* a variant of ReadBeU16 that reads the low byte first
ReadBeU16_LittleEndian(s) == s[2] * 256 + s[1]

\* read_u16::<BigEndian>
ReadBeU16(s) == s[1] * 256 + s[2]

\* the bytes of "user", "pass" and one-letter strings
StrUser == <<117, 115, 101, 114>>
StrPass == <<112, 97, 115, 115>>

\* the length of the well-formed UTF-8 sequence that starts at s[i], or 0
Utf8Width(s, i) ==
    LET n == Len(s)
        b == s[i]
        In(k, lo, hi) == k <= n /\ s[k] \in lo..hi
        Cont(k) == In(k, 128, 191)
    IN  IF b < 128 THEN 1
        ELSE IF b \in 194..223 THEN (IF Cont(i + 1) THEN 2 ELSE 0)
        ELSE IF b = 224
             THEN (IF In(i + 1, 160, 191) /\ Cont(i + 2) THEN 3 ELSE 0)
        ELSE IF b \in (225..236) \cup (238..239)
             THEN (IF Cont(i + 1) /\ Cont(i + 2) THEN 3 ELSE 0)
        ELSE IF b = 237
             THEN (IF In(i + 1, 128, 159) /\ Cont(i + 2) THEN 3 ELSE 0)
        ELSE IF b = 240
             THEN (IF In(i + 1, 144, 191) /\ Cont(i + 2) /\ Cont(i + 3) THEN 4 ELSE 0)
        ELSE IF b \in 241..243
             THEN (IF Cont(i + 1) /\ Cont(i + 2) /\ Cont(i + 3) THEN 4 ELSE 0)
        ELSE IF b = 244
             THEN (IF In(i + 1, 128, 143) /\ Cont(i + 2) /\ Cont(i + 3) THEN 4 ELSE 0)
        ELSE 0

\* String::from_utf8: whether a byte string is valid UTF-8: every byte that is
\* no continuation byte starts a well-formed sequence, and every continuation
\* byte lies in the sequence of the lead byte before it
IsUtf8(s) ==
    \A i \in DOMAIN s :
        IF s[i] \in 128..191
        THEN \E j \in (i - 3)..(i - 1) :
                /\ j >= 1
                /\ s[j] \notin 128..191
                /\ Utf8Width(s, j) > i - j
        ELSE Utf8Width(s, i) > 0

-----------------------------------------------------------------------------
(* Errors: src/error.rs *)

\* enum Error
Variants ==
    {"InvalidSocksAddress", "InvalidPortValue", "NoResolveSocketAddrs",
     "InvalidResponseVersion", "UnknownResponseCode", "ConnectionRefused",
     "RejectedRequestID", "Socks4NoIPv6", "MalformedDomain",
     "SOCKS5InvalidAddressType", "UnknownServerFailure",
     "ServerRefusedByRuleSet", "ServerNetworkUnreachable",
     "ServerHostUnreachable", "ServerTTLExpired", "ServerCmdNotSupported",
     "ServerAddressNotSupported", "InvalidReservedByte", "InvalidDomainLength",
     "NoAuthMethods", "UnknownAuthMethod", "InvalidUsername", "InvalidPassword",
     "FailedPasswordAuth", "InvalidReservedBytes", "InvalidFragmentID",
     "WinUDP4GiBLimit"}

\* a variant of ErrorKind that reports an expired TTL as a timeout
ErrorKind_TtlTimedOut(variant) ==
    CASE variant \in {"InvalidSocksAddress", "InvalidPortValue",
                      "NoResolveSocketAddrs", "Socks4NoIPv6",
                      "InvalidDomainLength", "InvalidUsername",
                      "InvalidPassword", "WinUDP4GiBLimit"} -> "InvalidInput"
      [] variant \in {"InvalidResponseVersion", "MalformedDomain",
                      "SOCKS5InvalidAddressType", "InvalidReservedBytes",
                      "InvalidFragmentID"} -> "InvalidData"
      [] variant \in {"UnknownResponseCode", "UnknownServerFailure",
                      "InvalidReservedByte"} -> "Other"
      [] variant \in {"ConnectionRefused", "ServerRefusedByRuleSet"}
            -> "ConnectionRefused"
      [] variant \in {"ServerNetworkUnreachable", "ServerHostUnreachable"}
            -> "ConnectionAborted"
      [] variant = "ServerTTLExpired" -> "TimedOut"
      [] variant \in {"ServerCmdNotSupported", "ServerAddressNotSupported",
                      "NoAuthMethods", "UnknownAuthMethod"} -> "Unsupported"
      [] variant \in {"RejectedRequestID", "FailedPasswordAuth"}
            -> "PermissionDenied"

\* impl From<Error> for io::Error: the transport kind of each variant
ErrorKind(variant) ==
    CASE variant \in {"InvalidSocksAddress", "InvalidPortValue",
                      "NoResolveSocketAddrs", "Socks4NoIPv6",
                      "InvalidDomainLength", "InvalidUsername",
                      "InvalidPassword", "WinUDP4GiBLimit"} -> "InvalidInput"
      [] variant \in {"InvalidResponseVersion", "MalformedDomain",
                      "SOCKS5InvalidAddressType", "InvalidReservedBytes",
                      "InvalidFragmentID"} -> "InvalidData"
      [] variant \in {"UnknownResponseCode", "UnknownServerFailure",
                      "InvalidReservedByte"} -> "Other"
      [] variant \in {"ConnectionRefused", "ServerRefusedByRuleSet"}
            -> "ConnectionRefused"
      [] variant \in {"ServerNetworkUnreachable", "ServerHostUnreachable"}
            -> "ConnectionAborted"
      [] variant = "ServerTTLExpired" -> "Interrupted"
      [] variant \in {"ServerCmdNotSupported", "ServerAddressNotSupported",
                      "NoAuthMethods", "UnknownAuthMethod"} -> "Unsupported"
      [] variant \in {"RejectedRequestID", "FailedPasswordAuth"}
            -> "PermissionDenied"

\* Error::into_io: an io::Error that carries the protocol variant
into_io(variant) == [ok |-> FALSE, kind |-> ErrorKind(variant), inner |-> variant]

\* impl From<Error> for io::Error on a value with fields: the match arms are
\* Error::$s { .. }, so the fields only travel inside the io::Error
from_error(value) ==
    [ok |-> FALSE, kind |-> ErrorKind(value.variant), inner |-> value.variant]

\* a variant of IoError that wraps every transport error in a protocol error
IoError_Wrapped(kind) == [ok |-> FALSE, kind |-> kind, inner |-> "UnknownServerFailure"]

\* an io::Error raised by the transport itself: it carries no protocol variant
IoError(kind) == [ok |-> FALSE, kind |-> kind, inner |-> "none"]

Ok == [ok |-> TRUE, kind |-> "none", inner |-> "none"]

\* unwrap_io_to_socks2_error(e).is_some(): e wraps a socks2 Error
is_io_socks2_error(e) == ~e.ok /\ e.inner \in Variants

Pending == [ok |-> FALSE, kind |-> "pending", inner |-> "none"]

-----------------------------------------------------------------------------
(* Target addresses: src/lib.rs *)

\* TargetAddr::Ip(SocketAddr::V4), TargetAddr::Ip(SocketAddr::V6) and
\* TargetAddr::Domain; host holds the 4 or 16 address bytes or the name
IpV4(a, port) == [kind |-> "V4", host |-> a, port |-> port]
\* SocketAddrV6::new(ip, port, flowinfo, scope_id)
SocketAddrV6(a, port, flowinfo, scope_id) ==
    [kind |-> "V6", host |-> a, port |-> port,
     flowinfo |-> flowinfo, scope_id |-> scope_id]
IpV6(a, port) == SocketAddrV6(a, port, 0, 0)
Domain(name, port) == [kind |-> "Domain", host |-> name, port |-> port]

NoAddr == [kind |-> "none", host |-> <<>>, port |-> 0]

\* to_target_addr for TargetAddr, SocketAddr, SocketAddrV4/6 and the tuples
\* of an address and a port: the value itself
\* (a text input is the record Text(s), s being the characters of the &str)
Text(s) == [kind |-> "Text", host |-> s, port |-> 0]

IsDigit(c) == c \in 48..57

IsHexDigit(c) == c \in 48..57 \/ c \in 97..102 \/ c \in 65..70

HexDigit(c) == IF c \in 48..57 THEN c - 48 ELSE IF c \in 97..102 THEN c - 87 ELSE c - 55

\* the value of a run of digits in the given radix
RECURSIVE NumberOf(_, _)
NumberOf(s, radix) ==
    IF s = <<>> THEN 0
    ELSE NumberOf(Take(s, Len(s) - 1), radix) * radix + HexDigit(s[Len(s)])

\* the k-th of the fields of s that the character c separates
Field(s, c, k) ==
    LET idx == {i \in DOMAIN s :
                    s[i] # c /\ Cardinality({j \in 1..i : s[j] = c}) = k - 1}
    IN  IF idx = {} THEN <<>>
        ELSE SubSeq(s, CHOOSE i \in idx : \A j \in idx : i <= j,
                       CHOOSE i \in idx : \A j \in idx : i >= j)

Fields(s, c) ==
    [k \in 1..(Cardinality({i \in DOMAIN s : s[i] = c}) + 1) |-> Field(s, c, k)]

\* a variant of LastColon that finds the leftmost ':'
LastColon_Leftmost(s) ==
    IF \E i \in DOMAIN s : s[i] = 58
    THEN CHOOSE i \in DOMAIN s : s[i] = 58 /\ \A j \in DOMAIN s : s[j] = 58 => i <= j
    ELSE 0

\* rsplitn(2, ':'): the position of the rightmost ':' of s, 0 when it has none
LastColon(s) ==
    IF \E i \in DOMAIN s : s[i] = 58
    THEN CHOOSE i \in DOMAIN s : s[i] = 58 /\ \A j \in DOMAIN s : s[j] = 58 => i >= j
    ELSE 0

NoParse == [ok |-> FALSE, value |-> 0]

\* u16::from_str: decimal digits after an optional '+', at most u16::MAX
ParseU16(s) ==
    LET digits == IF s # <<>> /\ s[1] = 43 THEN Drop(s, 1) ELSE s
    IN  IF digits = <<>> \/ \E i \in DOMAIN digits : ~IsDigit(digits[i]) THEN NoParse
        ELSE IF NumberOf(digits, 10) > 65535 THEN NoParse
        ELSE [ok |-> TRUE, value |-> NumberOf(digits, 10)]

\* the port of a socket address text: decimal digits only, at most u16::MAX
ParsePort(s) == IF s # <<>> /\ s[1] = 43 THEN NoParse ELSE ParseU16(s)

\* Ipv4Addr::from_str: four decimal fields of at most three digits, none
\* above 255 and none with a leading zero
ParseIpv4(s) ==
    LET f == Fields(s, 46)
        Octet(x) ==
            /\ Len(x) \in 1..3
            /\ \A i \in DOMAIN x : IsDigit(x[i])
            /\ Len(x) > 1 => x[1] # 48
            /\ NumberOf(x, 10) <= U8Max
    IN  IF Len(f) = 4 /\ \A k \in 1..4 : Octet(f[k])
              /\ Len(s) = Len(f[1]) + Len(f[2]) + Len(f[3]) + Len(f[4]) + 3
        THEN [ok |-> TRUE, value |-> [k \in 1..4 |-> NumberOf(f[k], 10)]]
        ELSE NoParse

\* Ipv6Addr::from_str for the texts without an embedded IPv4 address: eight
\* groups of one to four hex digits, or fewer around one "::"
ParseIpv6(s) ==
    LET Group(x) == Len(x) \in 1..4 /\ \A i \in DOMAIN x : IsHexDigit(x[i])
        Groups(x) == IF x = <<>> THEN <<>> ELSE Fields(x, 58)
        Valid(g, x) ==
            /\ \A k \in DOMAIN g : Group(g[k])
            /\ x # <<>> => x[1] # 58 /\ x[Len(x)] # 58
        Bytes(g) ==
            [i \in 1..(2 * Len(g)) |->
                LET v == NumberOf(g[(i + 1) \div 2], 16)
                IN  IF i % 2 = 1 THEN v \div 256 ELSE v % 256]
        dc == {i \in 1..(Len(s) - 1) : s[i] = 58 /\ s[i + 1] = 58}
    IN  IF dc = {}
        THEN LET g == Groups(s)
             IN  IF Len(g) = 8 /\ Valid(g, s)
                 THEN [ok |-> TRUE, value |-> Bytes(g)] ELSE NoParse
        ELSE IF Cardinality(dc) # 1 THEN NoParse
        ELSE LET k == CHOOSE i \in dc : TRUE
                 left == SubSeq(s, 1, k - 1)
                 right == SubSeq(s, k + 2, Len(s))
                 l == Groups(left)
                 r == Groups(right)
             IN  IF Valid(l, left) /\ Valid(r, right) /\ Len(l) + Len(r) <= 7
                 THEN [ok |-> TRUE,
                       value |-> Bytes(l) \o Rep(16 - 2 * (Len(l) + Len(r)), 0)
                                    \o Bytes(r)]
                 ELSE NoParse

\* SocketAddrV4::from_str: an IPv4 address, ':' and a port
ParseSocketAddrV4(s) ==
    LET k == LastColon(s)
        ip == ParseIpv4(SubSeq(s, 1, k - 1))
        port == ParsePort(SubSeq(s, k + 1, Len(s)))
    IN  IF k > 0 /\ ip.ok /\ port.ok
        THEN [ok |-> TRUE, value |-> IpV4(ip.value, port.value)] ELSE NoParse

\* SocketAddrV6::from_str for the texts without a scope id: an IPv6 address
\* in brackets, ':' and a port
ParseSocketAddrV6(s) ==
    LET k == LastColon(s)
        ip == ParseIpv6(SubSeq(s, 2, k - 2))
        port == ParsePort(SubSeq(s, k + 1, Len(s)))
    IN  IF k > 3 /\ s[1] = 91 /\ s[k - 1] = 93 /\ ip.ok /\ port.ok
        THEN [ok |-> TRUE, value |-> IpV6(ip.value, port.value)] ELSE NoParse

\* impl ToTargetAddr for (&str, u16)
host_port_to_target_addr(host, port) ==
    LET v4 == ParseIpv4(host)
        v6 == ParseIpv6(host)
    IN  IF v4.ok THEN IpV4(v4.value, port)
        ELSE IF v6.ok THEN IpV6(v6.value, port)
        ELSE Domain(host, port)

\* impl ToTargetAddr for &str
str_to_target_addr(s) ==
    LET v4 == ParseSocketAddrV4(s)
        v6 == ParseSocketAddrV6(s)
        k == LastColon(s)
        host == SubSeq(s, 1, k - 1)
        port_str == SubSeq(s, k + 1, Len(s))
        port == ParseU16(port_str)
    IN  IF v4.ok THEN [res |-> Ok, addr |-> v4.value]
        ELSE IF v6.ok THEN [res |-> Ok, addr |-> v6.value]
        ELSE IF k = 0 THEN [res |-> into_io("InvalidSocksAddress"), addr |-> NoAddr]
        ELSE IF ~port.ok THEN [res |-> into_io("InvalidPortValue"), addr |-> NoAddr]
        ELSE [res |-> Ok, addr |-> host_port_to_target_addr(host, port.value)]

\* ToTargetAddr::to_target_addr on what a caller passes as a target
to_target_addr(target) ==
    IF target.kind = "Text" THEN str_to_target_addr(target.host)
    ELSE [res |-> Ok, addr |-> target]

-----------------------------------------------------------------------------
(* SOCKS5 address codec: src/v5.rs *)

\* a variant of write_addr that narrows the domain's length with `as u8`
write_addr_LengthAsU8(cap, target) ==
    LET body ==
            CASE target.kind = "V4" -> <<1>> \o target.host \o BeU16(target.port)
              [] target.kind = "V6" -> <<4>> \o target.host \o BeU16(target.port)
              [] target.kind = "Domain" ->
                    <<3, Len(target.host) % 256>> \o target.host \o BeU16(target.port)
    IN  IF Len(body) > cap
        THEN [res |-> IoError("WriteZero"), bytes |-> <<>>, len |-> 0]
        ELSE [res |-> Ok, bytes |-> body, len |-> Len(body)]

\* write_addr into a buffer of cap bytes: the bytes written and their number
\* (start_len - packet.len()), or the error
write_addr(cap, target) ==
    LET body ==
            CASE target.kind = "V4" -> <<1>> \o target.host \o BeU16(target.port)
              [] target.kind = "V6" -> <<4>> \o target.host \o BeU16(target.port)
              [] target.kind = "Domain" ->
                    <<3, Len(target.host)>> \o target.host \o BeU16(target.port)
        start_len == cap
        packet_len == cap - Len(body)
    IN  IF target.kind = "Domain" /\ ~(Len(target.host) \in 1..U8Max)
        THEN [res |-> into_io("InvalidDomainLength"), bytes |-> <<>>, len |-> 0]
        ELSE IF Len(body) > cap
        THEN [res |-> IoError("WriteZero"), bytes |-> <<>>, len |-> 0]
        ELSE [res |-> Ok, bytes |-> body, len |-> start_len - packet_len]

\* a variant of read_addr that takes the domain bytes without validating them
read_addr_NoUtf8Check(s) ==
    LET Eof == [res |-> IoError("UnexpectedEof"), addr |-> NoAddr, used |-> Len(s)]
    IN  IF Len(s) < 1 THEN Eof
        ELSE CASE s[1] = 1 ->
                    IF Len(s) < 7 THEN Eof
                    ELSE [res |-> Ok,
                          addr |-> IpV4(SubSeq(s, 2, 5), ReadBeU16(SubSeq(s, 6, 7))),
                          used |-> 7]
               [] s[1] = 3 ->
                    IF Len(s) < 2 \/ Len(s) < 4 + s[2] THEN Eof
                    ELSE [res |-> Ok,
                          addr |-> Domain(SubSeq(s, 3, 2 + s[2]),
                                          ReadBeU16(SubSeq(s, 3 + s[2], 4 + s[2]))),
                          used |-> 4 + s[2]]
               [] s[1] = 4 ->
                    IF Len(s) < 19 THEN Eof
                    ELSE [res |-> Ok,
                          addr |-> IpV6(SubSeq(s, 2, 17), ReadBeU16(SubSeq(s, 18, 19))),
                          used |-> 19]
               [] OTHER ->
                    [res |-> into_io("SOCKS5InvalidAddressType"), addr |-> NoAddr,
                     used |-> 1]

\* read_addr from the bytes s the reader holds: the address decoded and the
\* number of bytes consumed, or the error
read_addr(s) ==
    LET Eof == [res |-> IoError("UnexpectedEof"), addr |-> NoAddr, used |-> Len(s)]
    IN  IF Len(s) < 1 THEN Eof
        ELSE CASE s[1] = 1 ->
                    IF Len(s) < 7 THEN Eof
                    ELSE [res |-> Ok,
                          addr |-> IpV4(SubSeq(s, 2, 5), ReadBeU16(SubSeq(s, 6, 7))),
                          used |-> 7]
               [] s[1] = 3 ->
                    IF Len(s) < 2 \/ Len(s) < 2 + s[2] THEN Eof
                    ELSE IF ~IsUtf8(SubSeq(s, 3, 2 + s[2]))
                    THEN [res |-> into_io("MalformedDomain"), addr |-> NoAddr,
                          used |-> 2 + s[2]]
                    ELSE IF Len(s) < 4 + s[2] THEN Eof
                    ELSE [res |-> Ok,
                          addr |-> Domain(SubSeq(s, 3, 2 + s[2]),
                                          ReadBeU16(SubSeq(s, 3 + s[2], 4 + s[2]))),
                          used |-> 4 + s[2]]
               [] s[1] = 4 ->
                    IF Len(s) < 19 THEN Eof
                    ELSE [res |-> Ok,
                          addr |-> IpV6(SubSeq(s, 2, 17), ReadBeU16(SubSeq(s, 18, 19))),
                          used |-> 19]
               [] OTHER ->
                    [res |-> into_io("SOCKS5InvalidAddressType"), addr |-> NoAddr,
                     used |-> 1]

\* a variant of read_response_calls that reads the whole reply in one call
read_response_calls_Whole(s) == <<Len(s)>>

\* the read_exact calls read_response and read_addr make on the stream, by
\* the number of bytes each asks for, when the stream holds s: one call per
\* read_u8, read_u16, read_u32 and read_exact, up to the call that fails or
\* the check that returns
read_response_calls(s) ==
    LET Has(k) == Len(s) >= k
        fixed == <<1, 1, 1, 1>>
    IN  IF ~Has(1) \/ s[1] # 5 THEN <<1>>
        ELSE IF ~Has(2) \/ s[2] # 0 THEN <<1, 1>>
        ELSE IF ~Has(3) \/ s[3] # 0 THEN <<1, 1, 1>>
        ELSE IF ~Has(4) THEN fixed
        ELSE CASE s[4] = 1 ->
                    IF ~Has(8) THEN fixed \o <<4>> ELSE fixed \o <<4, 2>>
               [] s[4] = 3 ->
                    IF ~Has(5) THEN fixed \o <<1>>
                    ELSE IF ~Has(5 + s[5]) \/ ~IsUtf8(SubSeq(s, 6, 5 + s[5]))
                    THEN fixed \o <<1, s[5]>>
                    ELSE fixed \o <<1, s[5], 2>>
               [] s[4] = 4 ->
                    IF ~Has(20) THEN fixed \o <<16>> ELSE fixed \o <<16, 2>>
               [] OTHER -> fixed

\* the calls on the proxy stream behind one entry of the log, by size: a
\* write_all of the packet, a read_exact of the 2-byte or 8-byte reply, or
\* the calls of the SOCKS5 reply decoder
StreamCalls(proto, entry) ==
    IF entry.op = "write" THEN <<Len(entry.bytes)>>
    ELSE IF entry.at \in {"method_reply", "auth_reply"} THEN <<2>>
    ELSE IF proto = 4 THEN <<8>>
    ELSE read_response_calls(entry.bytes)

\* the error of a SOCKS5 REP byte other than 0
RepError(rep) ==
    CASE rep = 1 -> "UnknownServerFailure"
      [] rep = 2 -> "ServerRefusedByRuleSet"
      [] rep = 3 -> "ServerNetworkUnreachable"
      [] rep = 4 -> "ServerHostUnreachable"
      [] rep = 5 -> "ConnectionRefused"
      [] rep = 6 -> "ServerTTLExpired"
      [] rep = 7 -> "ServerCmdNotSupported"
      [] rep = 8 -> "ServerAddressNotSupported"
      [] OTHER -> "UnknownServerFailure"

\* a variant of read_response that checks the reserved byte before REP
read_response_ReservedFirst(s) ==
    LET Fail(e, n) == [res |-> e, addr |-> NoAddr, used |-> n]
    IN  IF Len(s) < 1 THEN Fail(IoError("UnexpectedEof"), Len(s))
        ELSE IF s[1] # 5 THEN Fail(into_io("InvalidResponseVersion"), 1)
        ELSE IF Len(s) < 3 THEN Fail(IoError("UnexpectedEof"), Len(s))
        ELSE IF s[3] # 0 THEN Fail(into_io("InvalidReservedByte"), 3)
        ELSE IF s[2] # 0 THEN Fail(into_io(RepError(s[2])), 3)
        ELSE LET a == read_addr(Drop(s, 3))
             IN  [res |-> a.res, addr |-> a.addr, used |-> 3 + a.used]

\* a variant of read_response that skips the reserved byte unchecked
read_response_NoReservedCheck(s) ==
    LET Fail(e, n) == [res |-> e, addr |-> NoAddr, used |-> n]
    IN  IF Len(s) < 1 THEN Fail(IoError("UnexpectedEof"), Len(s))
        ELSE IF s[1] # 5 THEN Fail(into_io("InvalidResponseVersion"), 1)
        ELSE IF Len(s) < 2 THEN Fail(IoError("UnexpectedEof"), Len(s))
        ELSE IF s[2] # 0 THEN Fail(into_io(RepError(s[2])), 2)
        ELSE IF Len(s) < 3 THEN Fail(IoError("UnexpectedEof"), Len(s))
        ELSE LET a == read_addr(Drop(s, 3))
             IN  [res |-> a.res, addr |-> a.addr, used |-> 3 + a.used]

\* read_response (SOCKS5) from the bytes s the proxy sends
read_response(s) ==
    LET Fail(e, n) == [res |-> e, addr |-> NoAddr, used |-> n]
    IN  IF Len(s) < 1 THEN Fail(IoError("UnexpectedEof"), Len(s))
        ELSE IF s[1] # 5 THEN Fail(into_io("InvalidResponseVersion"), 1)
        ELSE IF Len(s) < 2 THEN Fail(IoError("UnexpectedEof"), Len(s))
        ELSE IF s[2] # 0 THEN Fail(into_io(RepError(s[2])), 2)
        ELSE IF Len(s) < 3 THEN Fail(IoError("UnexpectedEof"), Len(s))
        ELSE IF s[3] # 0 THEN Fail(into_io("InvalidReservedByte"), 3)
        ELSE LET a == read_addr(Drop(s, 3))
             IN  [res |-> a.res, addr |-> a.addr, used |-> 3 + a.used]

-----------------------------------------------------------------------------
(* SOCKS5 authentication: src/v5.rs *)

AuthNone == [kind |-> "None", username |-> <<>>, password |-> <<>>]

AuthPassword(u, p) == [kind |-> "Password", username |-> u, password |-> p]

\* Authentication::id
AuthId(auth) == IF auth.kind = "Password" THEN 2 ELSE 0

\* Authentication::is_no_auth
is_no_auth(auth) == auth.kind = "None"

\* a variant of MethodPacket that sends the whole 4-byte array
MethodPacket_WholeArray(auth) ==
    <<5, IF is_no_auth(auth) THEN 1 ELSE 2, AuthId(auth), 0>>

\* the method-negotiation message of connect_raw
MethodPacket(auth) ==
    LET packet == <<5, IF is_no_auth(auth) THEN 1 ELSE 2, AuthId(auth), 0>>
        packet_len == IF is_no_auth(auth) THEN 3 ELSE 4
    IN  Take(packet, packet_len)

\* a variant of CheckMethodReply without the check of the version byte
CheckMethodReply_NoVersionCheck(auth, buf) ==
    LET selected_method == buf[2]
    IN  IF selected_method = 255 THEN into_io("NoAuthMethods")
        ELSE IF selected_method # AuthId(auth) /\ selected_method # 0
        THEN into_io("UnknownAuthMethod")
        ELSE Ok

\* a variant of CheckMethodReply that looks at the method before the version
CheckMethodReply_MethodFirst(auth, buf) ==
    LET response_version == buf[1]
        selected_method == buf[2]
    IN  IF selected_method = 255 THEN into_io("NoAuthMethods")
        ELSE IF selected_method # AuthId(auth) /\ selected_method # 0
        THEN into_io("UnknownAuthMethod")
        ELSE IF response_version # 5 THEN into_io("InvalidResponseVersion")
        ELSE Ok

\* connect_raw's checks of the 2-byte method reply: the error, or Ok
CheckMethodReply(auth, buf) ==
    LET response_version == buf[1]
        selected_method == buf[2]
    IN  IF response_version # 5 THEN into_io("InvalidResponseVersion")
        ELSE IF selected_method = 255 THEN into_io("NoAuthMethods")
        ELSE IF selected_method # AuthId(auth) /\ selected_method # AuthId(AuthNone)
        THEN into_io("UnknownAuthMethod")
        ELSE Ok

\* a variant of RunsSubAuth that authenticates whenever a password is configured
RunsSubAuth_WheneverConfigured(auth, selected_method) ==
    auth.kind = "Password"

\* connect_raw's match on the selected method: whether sub-auth runs
RunsSubAuth(auth, selected_method) ==
    auth.kind = "Password" /\ selected_method = AuthId(auth)

\* a variant of NonZeroU8 without the check for zero
NonZeroU8_AllowsZero(len) == len \in 0..U8Max

\* u8::try_from(len).ok().and_then(|i| if i == 0 { None } else { Some(i) })
NonZeroU8(len) == len \in 1..U8Max

\* password_authentication's pre-flight checks
CheckCredentials(username, password) ==
    IF ~NonZeroU8(Len(username)) THEN into_io("InvalidUsername")
    ELSE IF ~NonZeroU8(Len(password)) THEN into_io("InvalidPassword")
    ELSE Ok

\* a variant of AuthPacket that stores the username's length in both length fields
AuthPacket_WrongPlen(username, password) ==
    <<1, Len(username)>> \o username \o <<Len(username)>> \o password

\* the packet password_authentication assembles in its 515-byte buffer and
\* the slice packet[..packet_size] it writes
AuthPacket(username, password) ==
    LET ulen == Len(username)
        plen == Len(password)
        packet_size == 3 + ulen + plen
        packet == [i \in 1..AuthPacketCap |->
                     IF i = 1 THEN 1
                     ELSE IF i = 2 THEN ulen
                     ELSE IF i \in 3..(2 + ulen) THEN username[i - 2]
                     ELSE IF i = 3 + ulen THEN plen
                     ELSE IF i \in (4 + ulen)..packet_size THEN password[i - 3 - ulen]
                     ELSE 0]
    IN  Take(packet, packet_size)

\* a variant of CheckAuthReply that looks at the status before the version
CheckAuthReply_StatusFirst(buf) ==
    IF buf[2] # 0 THEN into_io("FailedPasswordAuth")
    ELSE IF buf[1] # 1 THEN into_io("InvalidResponseVersion")
    ELSE Ok

\* password_authentication's checks of the 2-byte sub-auth reply
CheckAuthReply(buf) ==
    IF buf[1] # 1 THEN into_io("InvalidResponseVersion")
    ELSE IF buf[2] # 0 THEN into_io("FailedPasswordAuth")
    ELSE Ok

\* an Error value with its fields: text holds a String field, number a
\* numeric one (<<>> and 0 where the variant has none)
ErrorValue(variant, text, number) ==
    [variant |-> variant, text |-> text, number |-> number]

NoError == ErrorValue("none", <<>>, 0)

\* impl Display for Error, for the variants of password_authentication: the
\* format string and the values substituted into it; the unit value of
\* InvalidPassword's password field prints as "()"
Display(e) ==
    CASE e.variant = "InvalidUsername" ->
            [fmt |-> "invalid username '{username}' with length '{length}'",
             text |-> e.text, number |-> e.number]
      [] e.variant = "InvalidPassword" ->
            [fmt |-> "invalid password '{password:?}' with length '{length}'",
             text |-> <<40, 41>>, number |-> e.number]
      [] e.variant = "InvalidResponseVersion" ->
            [fmt |-> "invalid response version '{version}'",
             text |-> <<>>, number |-> e.number]
      [] e.variant = "FailedPasswordAuth" ->
            [fmt |-> "password authentication failed", text |-> <<>>, number |-> 0]
      [] OTHER -> [fmt |-> "", text |-> <<>>, number |-> 0]

\* a variant of password_authentication whose InvalidPassword carries the
\* password
password_authentication_KeepsPassword(username, password, buf) ==
    LET chk == CheckCredentials(username, password)
        reply == IF Len(buf) < 2 THEN IoError("UnexpectedEof") ELSE CheckAuthReply(buf)
        error ==
            IF ~chk.ok
            THEN IF chk.inner = "InvalidUsername"
                 THEN ErrorValue("InvalidUsername", username, Len(username))
                 ELSE ErrorValue("InvalidPassword", password, Len(password))
            ELSE IF reply.ok \/ reply.inner = "none" THEN NoError
            ELSE IF reply.inner = "InvalidResponseVersion"
            THEN ErrorValue("InvalidResponseVersion", <<>>, buf[1])
            ELSE ErrorValue("FailedPasswordAuth", <<>>, 0)
    IN  [res |-> IF ~chk.ok THEN chk ELSE reply,
         error |-> error,
         message |-> [Display(error) EXCEPT !.text =
                        IF error.variant = "InvalidPassword" THEN password ELSE @],
         packet |-> IF chk.ok THEN AuthPacket(username, password) ELSE <<>>]

\* password_authentication(socket, username, password) when the proxy answers
\* buf: the result, the Error value inside it with its fields, its message,
\* and the packet written
password_authentication(username, password, buf) ==
    LET chk == CheckCredentials(username, password)
        reply == IF Len(buf) < 2 THEN IoError("UnexpectedEof") ELSE CheckAuthReply(buf)
        error ==
            IF ~chk.ok
            THEN IF chk.inner = "InvalidUsername"
                 THEN ErrorValue("InvalidUsername", username, Len(username))
                 ELSE ErrorValue("InvalidPassword", <<>>, Len(password))
            ELSE IF reply.ok \/ reply.inner = "none" THEN NoError
            ELSE IF reply.inner = "InvalidResponseVersion"
            THEN ErrorValue("InvalidResponseVersion", <<>>, buf[1])
            ELSE ErrorValue("FailedPasswordAuth", <<>>, 0)
    IN  [res |-> IF ~chk.ok THEN chk ELSE reply,
         error |-> error,
         message |-> Display(error),
         packet |-> IF chk.ok THEN AuthPacket(username, password) ELSE <<>>]

\* a variant of RequestPacket that leaves out the reserved byte
RequestPacket_NoReserved(command, target) ==
    LET a == write_addr(MAX_ADDR_LEN, target)
    IN  [res |-> a.res,
         bytes |-> IF a.res.ok THEN <<5, command>> \o a.bytes ELSE <<>>]

\* the request frame connect_raw assembles in its MAX_ADDR_LEN + 3 bytes
RequestPacket(command, target) ==
    LET a == write_addr(MAX_ADDR_LEN, target)
    IN  [res |-> a.res,
         bytes |-> IF a.res.ok THEN <<5, command, 0>> \o a.bytes ELSE <<>>]

-----------------------------------------------------------------------------
(* SOCKS4 request and reply: src/v4.rs *)

\* a variant of RequestPacket4 that writes the address before the port
RequestPacket4_IpBeforePort(command, target, userid) ==
    CASE target.kind = "V6" -> [res |-> into_io("Socks4NoIPv6"), bytes |-> <<>>]
      [] target.kind = "V4" ->
            [res |-> Ok,
             bytes |-> <<4, command>> \o target.host \o BeU16(target.port)
                       \o userid \o <<0>>]
      [] target.kind = "Domain" ->
            [res |-> Ok,
             bytes |-> <<4, command>> \o <<0, 0, 0, 1>> \o BeU16(target.port)
                       \o userid \o <<0>> \o target.host \o <<0>>]

\* a variant of RequestPacket4 that sends the low 4 bytes of an IPv6 address
RequestPacket4_V6Truncated(command, target, userid) ==
    CASE target.kind = "V6" ->
            [res |-> Ok,
             bytes |-> <<4, command>> \o BeU16(target.port)
                       \o SubSeq(target.host, 13, 16) \o userid \o <<0>>]
      [] target.kind = "V4" ->
            [res |-> Ok,
             bytes |-> <<4, command>> \o BeU16(target.port) \o target.host
                       \o userid \o <<0>>]
      [] target.kind = "Domain" ->
            [res |-> Ok,
             bytes |-> <<4, command>> \o BeU16(target.port) \o <<0, 0, 0, 1>>
                       \o userid \o <<0>> \o target.host \o <<0>>]

\* the request connect_raw assembles, or Socks4NoIPv6
RequestPacket4(command, target, userid) ==
    CASE target.kind = "V6" -> [res |-> into_io("Socks4NoIPv6"), bytes |-> <<>>]
      [] target.kind = "V4" ->
            [res |-> Ok,
             bytes |-> <<4, command>> \o BeU16(target.port) \o target.host
                       \o userid \o <<0>>]
      [] target.kind = "Domain" ->
            [res |-> Ok,
             bytes |-> <<4, command>> \o BeU16(target.port) \o <<0, 0, 0, 1>>
                       \o userid \o <<0>> \o target.host \o <<0>>]

\* a variant of read_response4 that looks at the code before the version
read_response4_CodeFirst(s) ==
    LET Fail(e) == [res |-> e, addr |-> NoAddr]
    IN  CASE s[2] = 90 ->
                IF s[1] # 0 THEN Fail(into_io("InvalidResponseVersion"))
                ELSE [res |-> Ok,
                      addr |-> IpV4(SubSeq(s, 5, 8), ReadBeU16(SubSeq(s, 3, 4)))]
          [] s[2] = 91 -> Fail(into_io("ConnectionRefused"))
          [] s[2] = 92 -> Fail(into_io("RejectedRequestID"))
          [] s[2] = 93 -> Fail(into_io("RejectedRequestID"))
          [] OTHER -> Fail(into_io("UnknownResponseCode"))

\* read_response (SOCKS4) from the 8 bytes read_exact returned
read_response4(s) ==
    LET Fail(e) == [res |-> e, addr |-> NoAddr]
    IN  IF s[1] # 0 THEN Fail(into_io("InvalidResponseVersion"))
        ELSE CASE s[2] = 90 ->
                    [res |-> Ok,
                     addr |-> IpV4(SubSeq(s, 5, 8), ReadBeU16(SubSeq(s, 3, 4)))]
               [] s[2] = 91 -> Fail(into_io("ConnectionRefused"))
               [] s[2] = 92 -> Fail(into_io("RejectedRequestID"))
               [] s[2] = 93 -> Fail(into_io("RejectedRequestID"))
               [] OTHER -> Fail(into_io("UnknownResponseCode"))

-----------------------------------------------------------------------------
(* Connecting to the proxy *)

\* a variant of tcp_stream_connect that returns the error of the first attempt
tcp_stream_connect_FirstError(addrs) ==
    LET oks == {i \in DOMAIN addrs : addrs[i] = "ok"}
    IN  IF oks # {}
        THEN [res |-> Ok, connected |-> CHOOSE i \in oks : \A j \in oks : i <= j]
        ELSE IF addrs = <<>>
        THEN [res |-> into_io("NoResolveSocketAddrs"), connected |-> 0]
        ELSE [res |-> IoError(addrs[1]), connected |-> 0]

\* tcp_stream_connect over the resolved addresses, each given by what a
\* connection attempt to it ends in ("ok" or the kind of its error): the
\* addresses are tried in order; the result is the first stream that
\* connects (connected: its index), the error of the last attempt, or
\* NoResolveSocketAddrs
tcp_stream_connect(addrs) ==
    LET oks == {i \in DOMAIN addrs : addrs[i] = "ok"}
    IN  IF oks # {}
        THEN [res |-> Ok, connected |-> CHOOSE i \in oks : \A j \in oks : i <= j]
        ELSE IF addrs = <<>>
        THEN [res |-> into_io("NoResolveSocketAddrs"), connected |-> 0]
        ELSE [res |-> IoError(addrs[Len(addrs)]), connected |-> 0]

-----------------------------------------------------------------------------
(* What the caller passes and what the proxy sends *)

\* the lists a proxy address resolves to
Proxies ==
    {<<>>, <<"ConnectionRefused">>, <<"ConnectionRefused", "ok">>,
     <<"ok", "ConnectionRefused">>, <<"ConnectionRefused", "TimedOut">>}

Usernames ==
    {<<>>, <<117>>, StrUser, Rep(U8Max, 120), Rep(U8Max + 1, 120)}

Passwords ==
    {<<>>, <<112>>, StrPass, Rep(U8Max, 120), Rep(U8Max + 1, 120)}

Auths ==
    {AuthNone} \cup {AuthPassword(u, p) : u \in Usernames, p \in Passwords}

Targets ==
    { IpV4(<<1, 2, 3, 4>>, 80),
      IpV6(Rep(15, 0) \o <<1>>, 443),
      Domain(<<97, 46, 105, 111>>, 8080),
      Domain(Rep(U8Max, 97), 80),
      Domain(<<>>, 80),
      Domain(Rep(U8Max + 1, 97), 80) }

\* targets given as text: "localhost:80", "localhost", "localhost:65536"
TextTargets ==
    {Text(<<108, 111, 99, 97, 108, 104, 111, 115, 116, 58, 56, 48>>), Text(<<108, 111, 99, 97, 108, 104, 111, 115, 116>>), Text(<<108, 111, 99, 97, 108, 104, 111, 115, 116, 58, 54, 53, 53, 51, 54>>)}

\* the targets of SOCKS4 calls
Targets4 == Targets \cup {IpV4(<<93, 184, 216, 34>>, 80)}

\* the target bind_internal passes: 0.0.0.0:0
UdpDst == IpV4(<<0, 0, 0, 0>>, 0)

\* the userids a caller passes: any &str, a NUL character included
Userids == {<<>>, <<117>>, <<117, 0, 118>>}

\* the local endpoints a caller hands to Socks5Datagram::bind
LocalAddrs == {IpV4(<<0, 0, 0, 0>>, 0), IpV4(<<127, 0, 0, 1>>, 15410)}

\* the public operations and the command each passes to connect_raw
Apis == {"connect", "bind", "udp"}

CommandOf(api) ==
    CASE api = "connect" -> 1
      [] api = "bind" -> 2
      [] api = "udp" -> 3

SampleBytes == (0..MaxByte) \cup {U8Max}

\* 2-byte replies, and replies cut short by the proxy closing the stream
TwoByteReplies ==
    {<<v, m>> : v \in SampleBytes, m \in SampleBytes} \cup {<<>>, <<5>>, <<1>>}

ReplyAddr == <<1, 127, 0, 0, 1, 31, 144>>

ReplyAddrFields ==
    { ReplyAddr,
      <<4>> \o Rep(15, 0) \o <<1, 1, 187>>,
      <<3, 1, 97, 0, 80>>,
      <<3, 0, 0, 80>>,
      <<3, 2, 195, 40, 0, 80>>,
      <<2, 127, 0, 0, 1, 31, 144>>,
      <<1, 127, 0>> }

ReplyFrames ==
    {<<v, r, z>> \o ReplyAddr :
        v \in {0, 4, 5}, r \in SampleBytes \cup {7, 8, 9}, z \in {0, 1, U8Max}}
    \cup {<<5, 0, 0>> \o a : a \in ReplyAddrFields}
    \cup {<<>>, <<5>>, <<5, 0>>, <<5, 0, 0>>}

ReplyFrames4 ==
    {<<v, cd, 0, 80>> \o ip :
        v \in {0, 4}, cd \in {0, 89, 90, 91, 92, 93, 94, U8Max},
        ip \in {<<0, 0, 0, 0>>, <<93, 184, 216, 34>>}}
    \cup {<<>>, <<0, 90, 0, 80>>}

-----------------------------------------------------------------------------
(* State *)

\* given is the target as the caller passed it, target its conversion;
\* proxy is the resolved list and connected the index of the address the
\* stream is connected to
NoCall ==
    [proto |-> 0, api |-> "none", command |-> 0, given |-> NoAddr,
     target |-> NoAddr, auth |-> AuthNone, userid |-> <<>>, local |-> NoAddr,
     proxy |-> <<>>, connected |-> 0]

NoHandle ==
    [kind |-> "none", proxy_addr |-> NoAddr, udp_local |-> NoAddr,
     udp_peer |-> NoAddr]

\* one operation on the proxy stream; done is FALSE when the transport
\* failed it (a refused write, a read that met the end of the stream)
StreamOp(op, at, bytes, done) ==
    [op |-> op, at |-> at, bytes |-> bytes, done |-> done]

\* no codec function applied yet
NoApplication == [fn |-> "none", arg |-> NoAddr, bytes |-> <<>>, out |-> <<>>]

Init ==
    /\ pc = "idle"
    /\ call = NoCall
    /\ wire = <<>>
    /\ result = Pending
    /\ handle = NoHandle
    /\ applied = NoApplication

\* a variant of Return that lets the operation start over after an error
Return_Retry(e) ==
    /\ pc' = "idle"
    /\ result' = e
    /\ handle' = NoHandle

\* the call returns the error e: no handle reaches the caller
Return(e) ==
    /\ pc' = "done"
    /\ result' = e
    /\ handle' = NoHandle

\* the call moves on to its next stream operation
Goto(at) ==
    /\ pc' = at
    /\ UNCHANGED <<result, handle>>

\* socket.write_all(bytes): the transport takes the bytes or fails
WriteAll(at, bytes, next) ==
    \E sent \in BOOLEAN :
        /\ wire' = Append(wire, StreamOp("write", at, bytes, sent))
        /\ IF sent THEN Goto(next) ELSE Return(IoError("BrokenPipe"))

-----------------------------------------------------------------------------
(* SOCKS5: Socks5Stream::connect_raw, reached from Socks5Stream::connect,   *)
(* Socks5Listener::bind and Socks5Datagram::bind_internal                   *)

\* a variant of Connect5 that checks the domain's length when the call starts
Connect5_ValidatesTarget ==
    /\ pc = "idle"
    /\ \E api \in Apis, auth \in Auths, target \in Targets \cup TextTargets,
          proxy \in Proxies, addr \in LocalAddrs :
        LET socket == tcp_stream_connect(proxy)
            given == IF api = "udp" THEN UdpDst ELSE target
            converted == to_target_addr(given)
            checked == write_addr(MAX_ADDR_LEN, converted.addr)
        IN  /\ call' = [proto |-> 5, api |-> api, command |-> CommandOf(api),
                        given |-> given, target |-> converted.addr,
                        auth |-> auth, userid |-> <<>>,
                        local |-> IF api = "udp" THEN addr ELSE NoAddr,
                        proxy |-> proxy, connected |-> socket.connected]
            /\ IF ~socket.res.ok THEN Return(socket.res)
               ELSE IF ~converted.res.ok THEN Return(converted.res)
               ELSE IF ~checked.res.ok THEN Return(checked.res)
               ELSE Goto("negotiate_write")
    /\ UNCHANGED <<wire, applied>>

\* the call starts: the proxy is connected and the target converted
Connect5 ==
    /\ pc = "idle"
    /\ \E api \in Apis, auth \in Auths, target \in Targets \cup TextTargets,
          proxy \in Proxies, addr \in LocalAddrs :
        LET socket == tcp_stream_connect(proxy)
            given == IF api = "udp" THEN UdpDst ELSE target
            converted == to_target_addr(given)
        IN  /\ call' = [proto |-> 5, api |-> api, command |-> CommandOf(api),
                        given |-> given, target |-> converted.addr,
                        auth |-> auth, userid |-> <<>>,
                        local |-> IF api = "udp" THEN addr ELSE NoAddr,
                        proxy |-> proxy, connected |-> socket.connected]
            /\ IF ~socket.res.ok THEN Return(socket.res)
               ELSE IF ~converted.res.ok THEN Return(converted.res)
               ELSE Goto("negotiate_write")
    /\ UNCHANGED <<wire, applied>>

\* socket.write_all(&packet[..packet_len])
NegotiateWrite ==
    /\ pc = "negotiate_write"
    /\ WriteAll("methods", MethodPacket(call.auth), "negotiate_read")
    /\ UNCHANGED <<call, applied>>

\* socket.read_exact(&mut buf) and the checks of the method reply
NegotiateRead ==
    /\ pc = "negotiate_read"
    /\ \E buf \in TwoByteReplies :
        IF Len(buf) < 2
        THEN /\ wire' = Append(wire, StreamOp("read", "method_reply", buf, FALSE))
             /\ Return(IoError("UnexpectedEof"))
        ELSE /\ wire' = Append(wire, StreamOp("read", "method_reply", buf, TRUE))
             /\ LET chk == CheckMethodReply(call.auth, buf)
                IN  IF ~chk.ok THEN Return(chk)
                    ELSE IF RunsSubAuth(call.auth, buf[2]) THEN Goto("auth_write")
                    ELSE Goto("request_write")
    /\ UNCHANGED <<call, applied>>

\* password_authentication up to its write_all
AuthWrite ==
    /\ pc = "auth_write"
    /\ LET chk == CheckCredentials(call.auth.username, call.auth.password)
           packet == AuthPacket(call.auth.username, call.auth.password)
       IN  IF ~chk.ok THEN Return(chk) /\ UNCHANGED wire
           ELSE WriteAll("auth", packet, "auth_read")
    /\ UNCHANGED <<call, applied>>

\* password_authentication from its read_exact on
AuthRead ==
    /\ pc = "auth_read"
    /\ \E buf \in TwoByteReplies :
        IF Len(buf) < 2
        THEN /\ wire' = Append(wire, StreamOp("read", "auth_reply", buf, FALSE))
             /\ Return(IoError("UnexpectedEof"))
        ELSE /\ wire' = Append(wire, StreamOp("read", "auth_reply", buf, TRUE))
             /\ LET chk == CheckAuthReply(buf)
                IN  IF ~chk.ok THEN Return(chk) ELSE Goto("request_write")
    /\ UNCHANGED <<call, applied>>

\* write_addr and socket.write_all(&packet[..len + 3])
RequestWrite ==
    /\ pc = "request_write"
    /\ LET req == RequestPacket(call.command, call.target)
       IN  IF ~req.res.ok THEN Return(req.res) /\ UNCHANGED wire
           ELSE WriteAll("request", req.bytes, "response_read")
    /\ UNCHANGED <<call, applied>>

\* a variant of Wrap5 whose UDP socket is connected to the address the
\* request named instead of the one the reply carried
Wrap5_ConnectsToRequestAddress(api, proxy_addr, addr, udp_ok) ==
    CASE api = "connect" ->
            [res |-> Ok,
             handle |-> [kind |-> "Socks5Stream", proxy_addr |-> proxy_addr,
                         udp_local |-> NoAddr, udp_peer |-> NoAddr]]
      [] api = "bind" ->
            [res |-> Ok,
             handle |-> [kind |-> "Socks5Listener", proxy_addr |-> proxy_addr,
                         udp_local |-> NoAddr, udp_peer |-> NoAddr]]
      [] api = "udp" ->
            IF udp_ok
            THEN [res |-> Ok,
                  handle |-> [kind |-> "Socks5Datagram", proxy_addr |-> proxy_addr,
                              udp_local |-> addr, udp_peer |-> UdpDst]]
            ELSE [res |-> IoError("AddrNotAvailable"), handle |-> NoHandle]

\* what the public operation makes of the stream connect_raw returned: for
\* the datagram, UdpSocket::bind(addr) and socket.connect(&stream.proxy_addr)
\* (udp_ok: whether both succeeded)
Wrap5(api, proxy_addr, addr, udp_ok) ==
    CASE api = "connect" ->
            [res |-> Ok,
             handle |-> [kind |-> "Socks5Stream", proxy_addr |-> proxy_addr,
                         udp_local |-> NoAddr, udp_peer |-> NoAddr]]
      [] api = "bind" ->
            [res |-> Ok,
             handle |-> [kind |-> "Socks5Listener", proxy_addr |-> proxy_addr,
                         udp_local |-> NoAddr, udp_peer |-> NoAddr]]
      [] api = "udp" ->
            IF udp_ok
            THEN [res |-> Ok,
                  handle |-> [kind |-> "Socks5Datagram", proxy_addr |-> proxy_addr,
                              udp_local |-> addr, udp_peer |-> proxy_addr]]
            ELSE [res |-> IoError("AddrNotAvailable"), handle |-> NoHandle]

\* read_response and the return of the handle
ResponseRead ==
    /\ pc = "response_read"
    /\ \E frame \in ReplyFrames, udp_ok \in BOOLEAN :
        LET r == read_response(frame)
            w == Wrap5(call.api, r.addr, call.local, udp_ok)
        IN  /\ call.api # "udp" => udp_ok
            /\ wire' = Append(wire, StreamOp("read", "response", Take(frame, r.used),
                                             r.res.kind # "UnexpectedEof"))
            /\ IF ~r.res.ok THEN Return(r.res)
               ELSE /\ pc' = "done"
                    /\ result' = w.res
                    /\ handle' = w.handle
    /\ UNCHANGED <<call, applied>>

-----------------------------------------------------------------------------
(* SOCKS4: Socks4Stream::connect_raw, reached from Socks4Stream::connect    *)
(* and Socks4Listener::bind                                                 *)

Connect4 ==
    /\ pc = "idle"
    /\ \E api \in {"connect", "bind"}, target \in Targets4 \cup TextTargets,
          userid \in Userids, proxy \in Proxies :
        LET socket == tcp_stream_connect(proxy)
            converted == to_target_addr(target)
        IN  /\ call' = [proto |-> 4, api |-> api, command |-> CommandOf(api),
                        given |-> target, target |-> converted.addr,
                        auth |-> AuthNone, userid |-> userid, local |-> NoAddr,
                        proxy |-> proxy, connected |-> socket.connected]
            /\ IF ~socket.res.ok THEN Return(socket.res)
               ELSE IF ~converted.res.ok THEN Return(converted.res)
               ELSE Goto("request4_write")
    /\ UNCHANGED <<wire, applied>>

\* the packet is assembled and written: socket.write_all(&packet)
Request4Write ==
    /\ pc = "request4_write"
    /\ LET req == RequestPacket4(call.command, call.target, call.userid)
       IN  IF ~req.res.ok THEN Return(req.res) /\ UNCHANGED wire
           ELSE WriteAll("request4", req.bytes, "response4_read")
    /\ UNCHANGED <<call, applied>>

Wrap4(api, proxy_addr) ==
    [kind |-> IF api = "bind" THEN "Socks4Listener" ELSE "Socks4Stream",
     proxy_addr |-> proxy_addr, udp_local |-> NoAddr, udp_peer |-> NoAddr]

\* read_response and the return of the handle
Response4Read ==
    /\ pc = "response4_read"
    /\ \E frame \in ReplyFrames4 :
        IF Len(frame) < 8
        THEN /\ wire' = Append(wire, StreamOp("read", "response4", frame, FALSE))
             /\ Return(IoError("UnexpectedEof"))
        ELSE LET r == read_response4(frame)
             IN  /\ wire' = Append(wire, StreamOp("read", "response4", frame, TRUE))
                 /\ IF ~r.res.ok THEN Return(r.res)
                    ELSE /\ pc' = "done"
                         /\ result' = Ok
                         /\ handle' = Wrap4(call.api, r.addr)
    /\ UNCHANGED <<call, applied>>

-----------------------------------------------------------------------------
(* BIND, second phase: Socks5Listener::accept and Socks4Listener::accept     *)

\* a variant of Accept5 that leaves the listener's bound address in place
Accept5_KeepsBoundAddress ==
    /\ handle.kind = "Socks5Listener"
    /\ \E frame \in ReplyFrames :
        LET r == read_response(frame)
        IN  /\ wire' = Append(wire, StreamOp("read", "accept_reply", Take(frame, r.used),
                                             r.res.kind # "UnexpectedEof"))
            /\ result' = r.res
            /\ handle' = IF r.res.ok
                         THEN [handle EXCEPT !.kind = "Socks5Stream"]
                         ELSE NoHandle
    /\ UNCHANGED <<pc, call, applied>>

\* accept(mut self) consumes the listener: read_response on the same stream,
\* then the stream handle with the second reply's address, or the error
Accept5 ==
    /\ handle.kind = "Socks5Listener"
    /\ \E frame \in ReplyFrames :
        LET r == read_response(frame)
        IN  /\ wire' = Append(wire, StreamOp("read", "accept_reply", Take(frame, r.used),
                                             r.res.kind # "UnexpectedEof"))
            /\ result' = r.res
            /\ handle' = IF r.res.ok
                         THEN [handle EXCEPT !.kind = "Socks5Stream",
                                             !.proxy_addr = r.addr]
                         ELSE NoHandle
    /\ UNCHANGED <<pc, call, applied>>

\* a variant of Accept4 that hands the listener back when the reply is an error
Accept4_KeepsListener ==
    /\ handle.kind = "Socks4Listener"
    /\ \E frame \in ReplyFrames4 :
        IF Len(frame) < 8
        THEN /\ wire' = Append(wire, StreamOp("read", "accept_reply", frame, FALSE))
             /\ result' = IoError("UnexpectedEof")
             /\ handle' = NoHandle
        ELSE LET r == read_response4(frame)
             IN  /\ wire' = Append(wire, StreamOp("read", "accept_reply", frame, TRUE))
                 /\ result' = r.res
                 /\ handle' = IF r.res.ok
                              THEN [handle EXCEPT !.kind = "Socks4Stream",
                                                  !.proxy_addr = r.addr]
                              ELSE handle
    /\ UNCHANGED <<pc, call, applied>>

\* accept(mut self) consumes the listener, as Socks5Listener::accept does
Accept4 ==
    /\ handle.kind = "Socks4Listener"
    /\ \E frame \in ReplyFrames4 :
        IF Len(frame) < 8
        THEN /\ wire' = Append(wire, StreamOp("read", "accept_reply", frame, FALSE))
             /\ result' = IoError("UnexpectedEof")
             /\ handle' = NoHandle
        ELSE LET r == read_response4(frame)
             IN  /\ wire' = Append(wire, StreamOp("read", "accept_reply", frame, TRUE))
                 /\ result' = r.res
                 /\ handle' = IF r.res.ok
                              THEN [handle EXCEPT !.kind = "Socks4Stream",
                                                  !.proxy_addr = r.addr]
                              ELSE NoHandle
    /\ UNCHANGED <<pc, call, applied>>

-----------------------------------------------------------------------------
(* Socks4Listener::proxy_addr                                               *)

\* what self.0.socket.peer_addr() may return: the proxy's address as the
\* stream was connected to it, or the transport's error
PeerAddrs ==
    {[res |-> Ok, addr |-> IpV4(<<10, 0, 0, 1>>, 1080)],
     [res |-> Ok, addr |-> SocketAddrV6(<<254, 128>> \o Rep(13, 0) \o <<1>>, 1080, 7, 3)],
     [res |-> IoError("NotConnected"), addr |-> NoAddr]}

\* a variant of proxy_addr4 that keeps the port of the peer address
proxy_addr4_PeerPort(proxy_addr, peer) ==
    IF proxy_addr.host = <<0, 0, 0, 0>>
    THEN IF ~peer.res.ok THEN [res |-> peer.res, addr |-> NoAddr]
         ELSE [res |-> Ok, addr |-> peer.addr]
    ELSE [res |-> Ok, addr |-> proxy_addr]

\* Socks4Listener::proxy_addr(&self), peer being the value of peer_addr()
proxy_addr4(proxy_addr, peer) ==
    IF proxy_addr.host = <<0, 0, 0, 0>>
    THEN LET port == proxy_addr.port
         IN  IF ~peer.res.ok THEN [res |-> peer.res, addr |-> NoAddr]
             ELSE IF peer.addr.kind = "V4"
             THEN [res |-> Ok, addr |-> IpV4(peer.addr.host, port)]
             ELSE [res |-> Ok, addr |-> SocketAddrV6(peer.addr.host, port, 0, 0)]
    ELSE [res |-> Ok, addr |-> proxy_addr]

\* the caller asks the listener for the address to hand to the remote
\* process (once, before accept)
ProxyAddr4 ==
    /\ handle.kind = "Socks4Listener"
    /\ applied = NoApplication
    /\ \E peer \in PeerAddrs :
          applied' = [fn |-> "proxy_addr", arg |-> handle.proxy_addr,
                      bytes |-> <<>>, out |-> proxy_addr4(handle.proxy_addr, peer),
                      peer |-> peer]
    /\ UNCHANGED <<pc, call, wire, result, handle>>

-----------------------------------------------------------------------------
(* The caller's own traffic: impl Read / impl Write for the stream handles  *)

StreamKinds == {"Socks5Stream", "Socks4Stream"}

PayloadOps == {i \in DOMAIN wire : wire[i].at = "payload"}

Payload ==
    /\ handle.kind \in StreamKinds
    /\ Cardinality(PayloadOps) < MaxPayloadOps
    /\ \E op \in {"read", "write"} :
        wire' = Append(wire, StreamOp(op, "payload", <<71>>, TRUE))
    /\ UNCHANGED <<pc, call, result, handle, applied>>

-----------------------------------------------------------------------------

Next ==
    \/ Connect5
    \/ NegotiateWrite
    \/ NegotiateRead
    \/ AuthWrite
    \/ AuthRead
    \/ RequestWrite
    \/ ResponseRead
    \/ Connect4
    \/ Request4Write
    \/ Response4Read
    \/ Accept5
    \/ Accept4
    \/ ProxyAddr4
    \/ Payload

Spec == Init /\ [][Next]_vars

-----------------------------------------------------------------------------
(* The address codec and the reply decoder on their own: write_addr,        *)
(* read_addr and read_response applied to arguments drawn from bounded sets *)

Ports == {0, 80, 8080, 65535}

\* the names a String can hold (valid UTF-8), by length; the last has a
\* two-byte character
DomainNames ==
    {Rep(n, 97) : n \in 0..MaxShortDomain}
    \cup {Rep(U8Max, 97), Rep(U8Max + 1, 97), <<97, 46, 105, 111>>, <<195, 169>>}

CodecTargets ==
    {IpV4(a, p) :
        a \in {<<0, 0, 0, 0>>, <<1, 2, 3, 4>>, <<127, 0, 0, 1>>, Rep(4, U8Max)},
        p \in Ports}
    \cup {SocketAddrV6(a, p, f, sc) :
            a \in {Rep(15, 0) \o <<1>>, <<254, 128>> \o Rep(13, 0) \o <<1>>},
            p \in Ports, f \in {0, 7}, sc \in {0, 3}}
    \cup {Domain(d, p) : d \in DomainNames, p \in Ports}

\* bytes that may follow an encoded address in what the decoder reads
Trailers == {<<>>, <<9, 9>>}

\* the domain bytes a peer may send: valid and invalid UTF-8
DomainBytes ==
    {<<>>, <<97>>, <<195, 169>>, <<195, 40>>, <<U8Max>>, <<97, U8Max>>,
     <<237, 160, 128>>, <<226, 130, 172>>, Rep(U8Max, 97)}

\* address fields as a peer may send them: every sampled ATYP, domains, and
\* fields cut short
AddrFields ==
    {<<t, 127, 0, 0, 1, 31, 144>> \o x : t \in SampleBytes, x \in Trailers}
    \cup {<<3, Len(d)>> \o d \o <<0, 80>> \o x : d \in DomainBytes, x \in Trailers}
    \cup {<<3, Len(d)>> \o d : d \in DomainBytes}
    \cup {<<4>> \o Rep(15, 0) \o <<1, 1, 187>> \o x : x \in Trailers}
    \cup {<<>>, <<1, 127, 0>>, <<3>>, <<3, 2, 97>>, <<3, 1, 97, 0>>, <<4, 0>>}

\* replies as a proxy may send them
CodecReplies ==
    {<<v, r, z>> \o ReplyAddr :
        v \in SampleBytes, r \in (0..MaxRep) \cup {U8Max}, z \in {0, 1, U8Max}}
    \cup {<<5, 0, 0>> \o a : a \in AddrFields}
    \cup {<<5>>, <<0>>, <<5, 0>>, <<5, 1>>, <<5, 9>>}

\* write_addr(&mut header[3..], &addr)
WriteAddr ==
    /\ \E t \in CodecTargets :
          applied' = [fn |-> "write_addr", arg |-> t, bytes |-> <<>>,
                      out |-> write_addr(MAX_ADDR_LEN, t)]
    /\ UNCHANGED <<pc, call, wire, result, handle>>

\* read_addr on the len bytes write_addr produced, with what follows them
ReadAddrBack ==
    /\ applied.fn = "write_addr"
    /\ applied.out.res.ok
    /\ \E x \in Trailers :
          LET header == Take(applied.out.bytes, applied.out.len) \o x
          IN  applied' = [fn |-> "read_back", arg |-> applied.arg, bytes |-> header,
                          out |-> read_addr(header)]
    /\ UNCHANGED <<pc, call, wire, result, handle>>

\* read_addr on an address field a peer sent
ReadAddr ==
    /\ \E s \in AddrFields :
          applied' = [fn |-> "read_addr", arg |-> NoAddr, bytes |-> s,
                      out |-> read_addr(s)]
    /\ UNCHANGED <<pc, call, wire, result, handle>>

\* write_addr on the address read_addr decoded from a peer's address field
WriteAddrBack ==
    /\ applied.fn = "read_addr"
    /\ applied.out.res.ok
    /\ applied' = [fn |-> "write_back", arg |-> applied.out.addr,
                   bytes |-> Take(applied.bytes, applied.out.used),
                   out |-> write_addr(MAX_ADDR_LEN, applied.out.addr)]
    /\ UNCHANGED <<pc, call, wire, result, handle>>

\* passwords of each length in pairs that differ in content
SecretPasswords ==
    Passwords \cup {<<113>>, <<112, 97, 115, 116>>, Rep(U8Max, 121), Rep(U8Max + 1, 121)}

\* password_authentication with a username and a password, answered by buf
PasswordAuthentication ==
    /\ \E username \in Usernames, password \in SecretPasswords,
          buf \in {<<1, 0>>, <<1, 1>>, <<5, 0>>, <<0, 0>>, <<1>>} :
          applied' = [fn |-> "password_authentication", arg |-> NoAddr,
                      bytes |-> buf, username |-> username, password |-> password,
                      out |-> password_authentication(username, password, buf)]
    /\ UNCHANGED <<pc, call, wire, result, handle>>

\* read_response on a reply a proxy sent
ReadResponse ==
    /\ \E s \in CodecReplies :
          applied' = [fn |-> "read_response", arg |-> NoAddr, bytes |-> s,
                      out |-> read_response(s)]
    /\ UNCHANGED <<pc, call, wire, result, handle>>

\* the texts a caller passes as a target
Texts ==
    { <<108, 111, 99, 97, 108, 104, 111, 115, 116, 58, 56, 48>>, \* "localhost:80"
      <<108, 111, 99, 97, 108, 104, 111, 115, 116, 58>>, \* "localhost:"
      <<108, 111, 99, 97, 108, 104, 111, 115, 116>>, \* "localhost"
      <<>>, \* ""
      <<103, 105, 116, 104, 117, 98, 46, 99, 111, 109, 58, 52, 52, 51>>, \* "github.com:443"
      <<49, 46, 50, 46, 51, 46, 52, 58, 56, 48>>, \* "1.2.3.4:80"
      <<49, 46, 50, 46, 51, 46, 52, 58, 54, 53, 53, 51, 54>>, \* "1.2.3.4:65536"
      <<49, 46, 50, 46, 51, 46, 52, 58, 43, 56, 48>>, \* "1.2.3.4:+80"
      <<49, 46, 50, 46, 51, 46, 52, 58, 48, 56, 48>>, \* "1.2.3.4:080"
      <<49, 46, 50, 46, 51, 46, 52>>, \* "1.2.3.4"
      <<50, 53, 54, 46, 49, 46, 49, 46, 49, 58, 56, 48>>, \* "256.1.1.1:80"
      <<48, 49, 46, 50, 46, 51, 46, 52, 58, 56, 48>>, \* "01.2.3.4:80"
      <<49, 46, 50, 46, 51, 58, 56, 48>>, \* "1.2.3:80"
      <<91, 58, 58, 49, 93, 58, 52, 52, 51>>, \* "[::1]:443"
      <<58, 58, 49, 58, 56, 48>>, \* "::1:80"
      <<58, 58, 49>>, \* "::1"
      <<102, 101, 56, 48, 58, 58, 49, 58, 56, 48, 56, 48>>, \* "fe80::1:8080"
      <<91, 102, 101, 56, 48, 58, 58, 49, 93, 58, 56, 48, 56, 48>>, \* "[fe80::1]:8080"
      <<97, 58, 98, 58, 56, 48>>, \* "a:b:80"
      <<58, 56, 48>>, \* ":80"
      <<108, 111, 99, 97, 108, 104, 111, 115, 116, 58, 54, 53, 53, 51, 53>>, \* "localhost:65535"
      <<108, 111, 99, 97, 108, 104, 111, 115, 116, 58, 54, 53, 53, 51, 54>>, \* "localhost:65536"
      <<108, 111, 99, 97, 108, 104, 111, 115, 116, 58, 45, 49>>, \* "localhost:-1"
      <<108, 111, 99, 97, 108, 104, 111, 115, 116, 58, 56, 97>>, \* "localhost:8a"
      <<108, 111, 99, 97, 108, 104, 111, 115, 116, 58, 43, 56, 48>>, \* "localhost:+80"
      <<108, 111, 99, 97, 108, 104, 111, 115, 116, 58, 32, 56, 48>>, \* "localhost: 80"
      <<108, 111, 99, 97, 108, 104, 111, 115, 116, 58, 43>>, \* "localhost:+"
      <<49, 58, 50, 58, 51, 58, 52, 58, 53, 58, 54, 58, 55, 58, 56, 58, 57>>, \* "1:2:3:4:5:6:7:8:9"
      <<91, 58, 58, 49, 93, 58, 54, 53, 53, 51, 54>>, \* "[::1]:65536"
      <<97, 46, 105, 111, 58, 56, 48, 56, 48>> \* "a.io:8080"
    }

\* text.to_target_addr()
ToTargetAddr ==
    /\ \E s \in Texts :
          applied' = [fn |-> "to_target_addr", arg |-> Text(s), bytes |-> s,
                      out |-> to_target_addr(Text(s))]
    /\ UNCHANGED <<pc, call, wire, result, handle>>

\* error values: every variant, with sampled values of its fields
ErrorValues == [variant : Variants, field : {0, 1, U8Max}]

\* io::Error::from(value)
ConvertError ==
    /\ \E value \in ErrorValues :
          applied' = [fn |-> "into_io", arg |-> value, bytes |-> <<>>,
                      out |-> from_error(value)]
    /\ UNCHANGED <<pc, call, wire, result, handle>>

CodecNext ==
    \/ WriteAddr
    \/ ReadAddrBack
    \/ ReadAddr
    \/ WriteAddrBack
    \/ PasswordAuthentication
    \/ ReadResponse
    \/ ConvertError
    \/ ToTargetAddr

CodecSpec == Init /\ [][CodecNext]_vars

-----------------------------------------------------------------------------
(* UDP datagrams: Socks5Datagram::send_to and Socks5Datagram::recv_from,    *)
(* src/v5.rs, over UdpSocket::writev and UdpSocket::readv, src/io_ext.rs    *)

Min(a, b) == IF a < b THEN a ELSE b

\* a variant of writev that lays the second buffer before the first
writev_SecondFirst(bufs) ==
    [n |-> Len(bufs[1]) + Len(bufs[2]), datagram |-> bufs[2] \o bufs[1]]

\* UdpSocket::writev (unix): one datagram gathered from the two buffers; the
\* value is the number of bytes libc::writev took
writev(bufs) ==
    [n |-> Len(bufs[1]) + Len(bufs[2]), datagram |-> bufs[1] \o bufs[2]]

\* UdpSocket::readv (unix): one datagram scattered over a first buffer of cap
\* bytes and then buf; what fits in neither is dropped; the value is the
\* number of bytes libc::readv stored
readv(datagram, cap, buf) ==
    LET len == Min(Len(datagram), cap + Len(buf))
    IN  [n |-> len,
         first |-> [i \in 1..cap |-> IF i <= len THEN datagram[i] ELSE 0],
         second |-> [i \in 1..Len(buf) |->
                        IF cap + i <= len THEN datagram[cap + i] ELSE buf[i]]]

\* a variant of send_to that writes the header before it converts the target
send_to_ConvertsLate(buf, addr, sent) ==
    LET t == to_target_addr(addr)
        a == write_addr(MAX_ADDR_LEN, t.addr)
        header == <<0, 0, 0>> \o a.bytes \o Rep(MAX_ADDR_LEN - a.len, 0)
    IN  IF ~t.res.ok
        THEN [res |-> t.res, n |-> 0, datagrams |-> << <<0, 0, 0>> \o buf >>]
        ELSE IF ~a.res.ok THEN [res |-> a.res, n |-> 0, datagrams |-> <<>>]
        ELSE IF ~sent
        THEN [res |-> IoError("ConnectionRefused"), n |-> 0, datagrams |-> <<>>]
        ELSE LET w == writev(<<Take(header, a.len + 3), buf>>)
             IN  [res |-> Ok, n |-> w.n, datagrams |-> <<w.datagram>>]

\* a variant of send_to that hands writev the whole header array
send_to_WholeHeader(buf, addr, sent) ==
    LET t == to_target_addr(addr)
        a == write_addr(MAX_ADDR_LEN, t.addr)
        header == <<0, 0, 0>> \o a.bytes \o Rep(MAX_ADDR_LEN - a.len, 0)
    IN  IF ~t.res.ok THEN [res |-> t.res, n |-> 0, datagrams |-> <<>>]
        ELSE IF ~a.res.ok THEN [res |-> a.res, n |-> 0, datagrams |-> <<>>]
        ELSE IF ~sent
        THEN [res |-> IoError("ConnectionRefused"), n |-> 0, datagrams |-> <<>>]
        ELSE LET w == writev(<<header, buf>>)
             IN  [res |-> Ok, n |-> w.n, datagrams |-> <<w.datagram>>]

\* Socks5Datagram::send_to(buf, addr): the value returned and the datagrams
\* handed to the socket (sent: whether the socket took the datagram)
send_to(buf, addr, sent) ==
    LET t == to_target_addr(addr)
        a == write_addr(MAX_ADDR_LEN, t.addr)
        header == <<0, 0, 0>> \o a.bytes \o Rep(MAX_ADDR_LEN - a.len, 0)
    IN  IF ~t.res.ok THEN [res |-> t.res, n |-> 0, datagrams |-> <<>>]
        ELSE IF ~a.res.ok THEN [res |-> a.res, n |-> 0, datagrams |-> <<>>]
        ELSE IF ~sent
        THEN [res |-> IoError("ConnectionRefused"), n |-> 0, datagrams |-> <<>>]
        ELSE LET w == writev(<<Take(header, a.len + 3), buf>>)
             IN  [res |-> Ok, n |-> w.n, datagrams |-> <<w.datagram>>]

\* a variant of read_udp_header that looks at the fragment id first
read_udp_header_FragFirst(header) ==
    LET Fail(e) == [res |-> e, addr |-> NoAddr, used |-> 0]
    IN  IF Len(header) < 3 THEN Fail(IoError("UnexpectedEof"))
        ELSE IF header[3] # 0 THEN Fail(into_io("InvalidFragmentID"))
        ELSE IF ReadBeU16(header) # 0 THEN Fail(into_io("InvalidReservedBytes"))
        ELSE LET a == read_addr(Drop(header, 3))
             IN  [res |-> a.res, addr |-> a.addr, used |-> 3 + a.used]

\* recv_from's reading of the header: the reserved bytes, the fragment id,
\* then read_addr; used is the number of header bytes consumed
read_udp_header(header) ==
    LET Fail(e) == [res |-> e, addr |-> NoAddr, used |-> 0]
    IN  IF Len(header) < 2 THEN Fail(IoError("UnexpectedEof"))
        ELSE IF ReadBeU16(header) # 0 THEN Fail(into_io("InvalidReservedBytes"))
        ELSE IF Len(header) < 3 THEN Fail(IoError("UnexpectedEof"))
        ELSE IF header[3] # 0 THEN Fail(into_io("InvalidFragmentID"))
        ELSE LET a == read_addr(Drop(header, 3))
             IN  [res |-> a.res, addr |-> a.addr, used |-> 3 + a.used]

\* a variant of ptr_copy that copies byte by byte from the low end, reading
\* bytes it has already overwritten when the two ranges overlap
ptr_copy_Forward(buf, dst, count) ==
    [i \in 1..Len(buf) |->
        IF i > dst /\ i <= dst + count THEN buf[((i - 1) % dst) + 1] ELSE buf[i]]

\* ptr::copy(buf, buf + dst, count): count bytes from the start of buf moved
\* to offset dst, the ranges may overlap (memmove)
ptr_copy(buf, dst, count) ==
    [i \in 1..Len(buf) |->
        IF i > dst /\ i <= dst + count THEN buf[i - dst] ELSE buf[i]]

\* buf[..src.len()].copy_from_slice(src)
copy_from_slice(buf, src) ==
    [i \in 1..Len(buf) |-> IF i <= Len(src) THEN src[i] ELSE buf[i]]

\* the thread panicked (a slice index out of range)
Panicked == [ok |-> FALSE, kind |-> "panic", inner |-> "none"]

\* the process was stopped by a fault on a write outside the buffer
Crashed == [ok |-> FALSE, kind |-> "crash", inner |-> "none"]

\* what a write outside the caller's buffer may do: stop the process, or
\* land in whatever memory follows the buffer and let the call go on
UbOutcomes == {"crash", "spill"}

\* Socks5Datagram::recv_from(buf) when the socket delivers datagram: the
\* value returned and the contents of buf afterwards; spilled counts the
\* bytes written past the end of buf (ub: the outcome of such a write)
recv_from(datagram, buf, ub) ==
    LET cap == MAX_ADDR_LEN + 3
        rd == readv(datagram, cap, buf)
        len == rd.n
        overflow == IF len > cap THEN len - cap ELSE 0
        header_len == Min(cap, len)
        header == Take(rd.first, header_len)
        h == read_udp_header(header)
        Out(res, n, addr, b, spilled) ==
            [res |-> res, n |-> n, addr |-> addr, buf |-> b, spilled |-> spilled]
    IN  IF ~h.res.ok THEN Out(h.res, 0, NoAddr, rd.second, 0)
        ELSE LET rest == Drop(header, h.used)
                 r == Len(rest)
                 end == r + overflow
                 moved == ptr_copy(rd.second, r, overflow)
             IN  IF end <= Len(buf)
                 THEN Out(Ok, end, h.addr, copy_from_slice(moved, rest), 0)
                 ELSE IF ub = "crash"
                 THEN Out(Crashed, 0, NoAddr, rd.second, 0)
                 ELSE IF r > Len(buf)
                 THEN Out(Panicked, 0, NoAddr, moved, overflow)
                 ELSE Out(Ok, end, h.addr, copy_from_slice(moved, rest),
                          end - Len(buf))

\* the message of the tests: msg[i] = i as u8
Msg(n) == [i \in 1..n |-> (i - 1) % (U8Max + 1)]

\* b"hello world!"
HelloWorld == <<104, 101, 108, 108, 111, 32, 119, 111, 114, 108, 100, 33>>

\* the payloads a caller sends: empty, short, around the size at which the
\* datagram outgrows the 263-byte header array, and long
Payloads ==
    {HelloWorld}
    \cup {Msg(n) : n \in {0, 1, MAX_ADDR_LEN - 7, MAX_ADDR_LEN - 6,
                          MAX_ADDR_LEN + 100, MaxPayload}}

\* the targets a caller sends to
UdpTargets ==
    {IpV4(<<127, 0, 0, 1>>, 15411), IpV4(<<1, 2, 3, 4>>, 80),
     SocketAddrV6(Rep(15, 0) \o <<1>>, 443, 0, 0),
     SocketAddrV6(<<254, 128>> \o Rep(13, 0) \o <<1>>, 443, 7, 3),
     Domain(<<>>, 80), Domain(<<97>>, 80), Domain(<<97, 46, 105, 111>>, 8080),
     Domain(Rep(U8Max, 97), 65535), Domain(Rep(U8Max + 1, 97), 80)}

\* a caller's receive buffer of n bytes, before the call
Buffer(n) == Rep(n, 170)

\* the sizes of the buffer a caller receives a payload of n bytes into
BufLens(n) == {0, n, n + 1} \cup (IF n > 0 THEN {n - 1} ELSE {})

\* datagrams as the proxy may send them: every combination of reserved
\* bytes, fragment id and address field, with a payload
Datagrams ==
    {<<a, b, f>> \o x \o y :
        a \in {0, 1}, b \in {0, 1}, f \in {0, 1, U8Max},
        x \in AddrFields, y \in {<<>>, HelloWorld}}
    \cup {<<>>, <<0>>, <<0, 0>>, <<0, 1>>, <<0, 0, 0>>}

\* a Socks5Datagram as bind returns it: the handshake on the stream is
\* done and the UDP socket is connected to the address of the reply
UdpInit ==
    /\ pc = "done"
    /\ call = [proto |-> 5, api |-> "udp", command |-> 3, given |-> UdpDst,
               target |-> UdpDst, auth |-> AuthNone, userid |-> <<>>,
               local |-> IpV4(<<127, 0, 0, 1>>, 15410),
               proxy |-> <<"ok">>, connected |-> 1]
    /\ wire = << StreamOp("write", "methods", MethodPacket(AuthNone), TRUE),
                 StreamOp("read", "method_reply", <<5, 0>>, TRUE),
                 StreamOp("write", "request", RequestPacket(3, UdpDst).bytes, TRUE),
                 StreamOp("read", "response", <<5, 0, 0>> \o ReplyAddr, TRUE) >>
    /\ result = Ok
    /\ handle = Wrap5("udp", read_response(<<5, 0, 0>> \o ReplyAddr).addr,
                      IpV4(<<127, 0, 0, 1>>, 15410), TRUE).handle
    /\ applied = NoApplication

\* targets given as text: "localhost:80", "localhost", "localhost:65536"
UdpTextTargets == TextTargets

\* nothing reached the UDP socket yet: no call was made, or send_to failed in
\* to_target_addr or write_addr, before writev
Fresh ==
    \/ applied = NoApplication
    \/ applied.fn = "send_to" /\ ~applied.out.res.ok /\ applied.out.res.inner # "none"

\* the caller sends one of bufs to one of addrs. send_to and recv_from keep
\* no state between calls: a behaviour is one exchange on the socket, which
\* calls of send_to that fail before it may precede (calls: the number of
\* calls of send_to so far)
SendToOf(bufs, addrs) ==
    /\ handle.kind = "Socks5Datagram"
    /\ Fresh
    /\ applied # NoApplication => applied.calls < MaxSendTo
    /\ \E buf \in bufs, addr \in addrs, sent \in BOOLEAN :
          applied' = [fn |-> "send_to", given |-> addr,
                      arg |-> to_target_addr(addr).addr, bytes |-> buf,
                      calls |-> IF applied = NoApplication THEN 1
                                ELSE applied.calls + 1,
                      out |-> send_to(buf, addr, sent)]
    /\ UNCHANGED <<pc, call, wire, result, handle>>

SendTo == SendToOf(Payloads, UdpTargets \cup UdpTextTargets)

\* the proxy sends the datagram back as it came, and the caller receives it
RecvFromEcho ==
    /\ handle.kind = "Socks5Datagram"
    /\ applied.fn = "send_to"
    /\ applied.out.res.ok
    /\ \E n \in BufLens(Len(applied.bytes)), ub \in UbOutcomes :
          applied' = [fn |-> "recv_echo", arg |-> applied.arg,
                      bytes |-> applied.out.datagrams[1],
                      payload |-> applied.bytes, buf |-> Buffer(n),
                      out |-> recv_from(applied.out.datagrams[1], Buffer(n), ub)]
    /\ UNCHANGED <<pc, call, wire, result, handle>>

\* the caller receives, into a buffer of one of the lengths lens, one of the
\* datagrams the proxy made up
RecvFromOf(datagrams, lens) ==
    /\ handle.kind = "Socks5Datagram"
    /\ Fresh
    /\ \E datagram \in datagrams, n \in lens, ub \in UbOutcomes :
          applied' = [fn |-> "recv_from", arg |-> NoAddr, bytes |-> datagram,
                      payload |-> <<>>, buf |-> Buffer(n),
                      out |-> recv_from(datagram, Buffer(n), ub)]
    /\ UNCHANGED <<pc, call, wire, result, handle>>

RecvFrom == RecvFromOf(Datagrams, {0, Len(HelloWorld), Len(HelloWorld) + 1})

UdpNext ==
    \/ SendTo
    \/ RecvFromEcho
    \/ RecvFrom

UdpSpec == UdpInit /\ [][UdpNext]_vars

-----------------------------------------------------------------------------
(* The whole interface: the handshakes, accept, and the datagrams of the    *)
(* relays the handshakes produce, with a few payloads, targets and          *)
(* datagrams of each kind                                                   *)

ApiPayloads == {HelloWorld}

ApiUdpTargets ==
    {IpV4(<<127, 0, 0, 1>>, 15411), Domain(Rep(U8Max, 97), 65535)}
    \cup UdpTextTargets

\* a reply to the caller, and datagrams that are cut short or fail a check
ApiDatagrams ==
    {<<0, 0, 0, 1, 127, 0, 0, 1, 60, 51>> \o HelloWorld,
     <<>>, <<0>>, <<0, 0>>, <<0, 0, 0>>, <<0, 0, 0, 1, 127, 0>>,
     <<0, 0, 0, 3, 2, 97>>, <<0, 0, 0, 3, 1, 97, 0>>,
     <<0, 1, 0, 1, 127, 0, 0, 1, 60, 51>>, <<0, 0, 1, 1, 127, 0, 0, 1, 60, 51>>,
     <<0, 0, 0, 9, 127, 0, 0, 1, 60, 51>>, <<0, 0, 0, 3, 2, 195, 40, 0, 80>>,
     <<0, 0, 0, 3, U8Max>> \o Rep(U8Max, 97) \o <<0, 80>> \o HelloWorld}

ApiSendTo == SendToOf(ApiPayloads, ApiUdpTargets)

ApiRecvFrom == RecvFromOf(ApiDatagrams, {Len(HelloWorld)})

ApiNext ==
    \/ Next
    \/ ApiSendTo
    \/ RecvFromEcho
    \/ ApiRecvFrom

ApiSpec == Init /\ [][ApiNext]_vars

-----------------------------------------------------------------------------
(* Properties *)

Byte(s, k) == IF k \in DOMAIN s THEN s[k] ELSE -1

Entry(i) == IF i \in DOMAIN wire THEN wire[i] ELSE StreamOp("none", "none", <<>>, FALSE)

AtIndex(at) == {i \in DOMAIN wire : wire[i].at = at}

IsPrefix(a, b) == Len(a) <= Len(b) /\ a = SubSeq(b, 1, Len(a))

\* the stream operations of the handshake (connect_raw), and all the
\* operations the library itself makes (the handshake's and accept's)
Hs == SelectSeq(wire, LAMBDA e : e.at \notin {"payload", "accept_reply"})

LibraryOps == SelectSeq(wire, LAMBDA e : e.at # "payload")

HsTags == [i \in 1..Len(Hs) |-> <<Hs[i].op, Hs[i].at>>]

ConfiguredMethod == IF call.auth.kind = "Password" THEN 2 ELSE 0

\* the call has returned an error
Failed == result.kind \notin {"none", "pending"}

CompletedWrites(w) == SelectSeq(w, LAMBDA e : e.op = "write" /\ e.done)

OrderNoAuth ==
    << <<"write", "methods">>, <<"read", "method_reply">>,
       <<"write", "request">>, <<"read", "response">> >>

OrderAuth ==
    << <<"write", "methods">>, <<"read", "method_reply">>,
       <<"write", "auth">>, <<"read", "auth_reply">>,
       <<"write", "request">>, <<"read", "response">> >>

\* C1: in every SOCKS5 handshake (connect, bind, UDP associate) the stream
\* operations occur in the order write methods, read method reply, [write
\* sub-auth, read sub-auth reply], write request, read reply, each completed
\* before the next; the sub-auth packet is written only after the method reply
\* selected 0x02, and the request only after the method reply (and the sub-auth
\* reply, when sub-auth ran) was read and accepted.
C1_HandshakeOrder ==
    call.proto = 5 =>
        /\ IsPrefix(HsTags, OrderNoAuth) \/ IsPrefix(HsTags, OrderAuth)
        /\ \A i \in 1..(Len(Hs) - 1) : Hs[i].done
        /\ \A i \in DOMAIN Hs :
              Hs[i].at = "auth" => Hs[2].done /\ Hs[2].bytes = <<5, 2>>
        /\ \A i \in DOMAIN Hs :
              Hs[i].at = "request" =>
                  /\ Hs[2].done
                  /\ Byte(Hs[2].bytes, 1) = 5
                  /\ Byte(Hs[2].bytes, 2) \in {0, ConfiguredMethod}
                  /\ i = 5 => Hs[4].done /\ Hs[4].bytes = <<1, 0>>

C1_Witness ==
    /\ call.proto = 5
    /\ call.api = "udp"
    /\ HsTags = OrderAuth
    /\ result.ok

\* the address a successful SOCKS5 reply b carries, read off its layout
ReplyAddress(b) ==
    LET n == Len(b)
        port == Byte(b, n - 1) * 256 + Byte(b, n)
    IN  CASE Byte(b, 4) = 1 -> IpV4(SubSeq(b, 5, n - 2), port)
          [] Byte(b, 4) = 4 -> IpV6(SubSeq(b, 5, n - 2), port)
          [] Byte(b, 4) = 3 -> Domain(SubSeq(b, 6, n - 2), port)
          [] OTHER -> NoAddr

WellFormedReply(b) ==
    /\ Byte(b, 1) = 5
    /\ Byte(b, 2) = 0
    /\ Byte(b, 3) = 0
    /\ \/ Byte(b, 4) = 1 /\ Len(b) = 10
       \/ Byte(b, 4) = 4 /\ Len(b) = 22
       \/ Byte(b, 4) = 3 /\ Len(b) = 7 + Byte(b, 5) /\ IsUtf8(SubSeq(b, 6, Len(b) - 2))

\* C2: a SOCKS5 handle exists only after the whole handshake succeeded: the
\* last operation the library made on the stream is the read of a reply with
\* version 5, REP 0, reserved 0 and a decodable address, and the handle's bound
\* address is the address of that reply (05 00 00 01 7F 00 00 01 1F 90 gives
\* 127.0.0.1:8080); every caller read or write on the stream comes after it.
C2_HandleAfterReply ==
    call.proto = 5 =>
        /\ handle.kind # "none" =>
              /\ result.ok
              /\ pc = "done"
              /\ HsTags \in {OrderNoAuth, OrderAuth}
              /\ \A i \in DOMAIN Hs : Hs[i].done
              /\ LET last == LibraryOps[Len(LibraryOps)]
                 IN  /\ last.op = "read"
                     /\ last.at \in {"response", "accept_reply"}
                     /\ last.done
                     /\ WellFormedReply(last.bytes)
                     /\ handle.proxy_addr = ReplyAddress(last.bytes)
                     /\ last.bytes = <<5, 0, 0, 1, 127, 0, 0, 1, 31, 144>>
                           => handle.proxy_addr = IpV4(<<127, 0, 0, 1>>, 8080)
        /\ \A j \in DOMAIN wire :
              wire[j].at = "payload" =>
                  /\ handle.kind \in StreamKinds
                  /\ j > Len(LibraryOps)
                  /\ HsTags \in {OrderNoAuth, OrderAuth}

C2_Witness ==
    /\ handle = [kind |-> "Socks5Stream", proxy_addr |-> IpV4(<<127, 0, 0, 1>>, 8080),
                 udp_local |-> NoAddr, udp_peer |-> NoAddr]
    /\ Len(wire) = 5
    /\ wire[1].bytes = <<5, 1, 0>>
    /\ wire[2].bytes = <<5, 0>>
    /\ wire[3].bytes = <<5, 1, 0, 1, 1, 2, 3, 4, 0, 80>>
    /\ wire[4].bytes = <<5, 0, 0, 1, 127, 0, 0, 1, 31, 144>>
    /\ wire[5].at = "payload"

NoPhaseRepeated(w) ==
    \A i, j \in DOMAIN w : (i # j /\ w[i].at # "payload") => w[i].at # w[j].at

\* C3: a SOCKS4 or SOCKS5 handshake is one all-or-nothing attempt: the step
\* that returns an error writes nothing, leaves no handle and ends the call,
\* no phase is repeated, and once an error was returned nothing more happens
\* on the proxy stream.
C3_AllOrNothing ==
    [][ Failed' =>
          /\ pc' = "done"
          /\ handle' = NoHandle
          /\ CompletedWrites(wire') = CompletedWrites(wire)
          /\ NoPhaseRepeated(wire')
          /\ Failed => (wire' = wire /\ result' = result) ]_vars

C3_Witness ==
    /\ Failed
    /\ call.proto = 5
    /\ result.inner = "InvalidReservedByte"
    /\ Len(wire) = 6
    /\ wire[6].at = "response"
    /\ handle = NoHandle

\* C4: the method-negotiation message is exactly 05 01 00 when the configured
\* authentication is None and exactly 05 02 02 00 when it is a username and
\* password, for every command and whatever the credentials are.
C4_MethodMessage ==
    call.proto = 5 =>
        /\ Len(wire) >= 1 => wire[1].at = "methods" /\ wire[1].op = "write"
        /\ \A i \in AtIndex("methods") :
              /\ i = 1
              /\ wire[i].bytes = IF call.auth.kind = "None"
                                 THEN <<5, 1, 0>> ELSE <<5, 2, 2, 0>>

C4_Witness ==
    /\ call.api = "udp"
    /\ call.auth.kind = "Password"
    /\ Len(call.auth.username) = 256
    /\ Len(wire) >= 1
    /\ wire[1].bytes = <<5, 2, 2, 0>>
    /\ wire[1].done

\* C5: the 2-byte method reply (version, method) is classified in this
\* precedence: version # 5 gives InvalidResponseVersion; else method 0xFF gives
\* NoAuthMethods; else a method that is neither the configured one nor 0 gives
\* UnknownAuthMethod (so method 2 when nothing but None was configured);
\* otherwise negotiation succeeds and the handshake goes on.
C5_MethodReplyClassification ==
    (call.proto = 5 /\ Len(wire) >= 2 /\ Entry(2).done) =>
        LET v == Byte(wire[2].bytes, 1)
            m == Byte(wire[2].bytes, 2)
            Stops(e) == Len(wire) = 2 /\ pc = "done" /\ result.inner = e
        IN  /\ wire[2].at = "method_reply"
            /\ v # 5 => Stops("InvalidResponseVersion")
            /\ (v = 5 /\ m = 255) => Stops("NoAuthMethods")
            /\ (v = 5 /\ m # 255 /\ m \notin {ConfiguredMethod, 0})
                  => Stops("UnknownAuthMethod")
            /\ (v = 5 /\ m # 255 /\ m \in {ConfiguredMethod, 0}) =>
                  /\ result.inner \notin {"NoAuthMethods", "UnknownAuthMethod"}
                  /\ Len(wire) = 2 =>
                        \/ pc \in {"auth_write", "request_write"} /\ result = Pending
                        \/ pc = "done" /\ result.inner \in
                              {"InvalidUsername", "InvalidPassword", "InvalidDomainLength"}

C5_Witness ==
    /\ call.proto = 5
    /\ call.auth.kind = "None"
    /\ Len(wire) = 2
    /\ wire[2].bytes = <<5, 255>>
    /\ result.inner = "NoAuthMethods"

\* C6: with a username and password configured, a method reply selecting 0
\* skips sub-auth: no sub-auth packet is written, the credentials are never
\* validated, and the request comes next (and can succeed); a method reply
\* selecting 2 always runs sub-auth before the request.
C6_NoAuthSelectedSkipsSubAuth ==
    (call.proto = 5 /\ call.auth.kind = "Password" /\ Entry(2).done) =>
        /\ Entry(2).bytes = <<5, 0>> =>
              /\ AtIndex("auth") = {}
              /\ AtIndex("auth_reply") = {}
              /\ pc \notin {"auth_write", "auth_read"}
              /\ result.inner \notin {"InvalidUsername", "InvalidPassword"}
              /\ Len(wire) >= 3 => wire[3].at = "request"
              /\ Len(wire) = 2 =>
                    pc = "request_write" \/ result.inner = "InvalidDomainLength"
        /\ Entry(2).bytes = <<5, 2>> =>
              /\ Len(wire) >= 3 => wire[3].at = "auth"
              /\ Len(wire) = 2 =>
                    pc = "auth_write"
                    \/ result.inner \in {"InvalidUsername", "InvalidPassword"}
              /\ \A i \in AtIndex("request") :
                    /\ i = 5
                    /\ wire[3].at = "auth" /\ wire[3].done
                    /\ wire[4].at = "auth_reply" /\ wire[4].bytes = <<1, 0>>

C6_Witness ==
    /\ call.auth.kind = "Password"
    /\ Len(call.auth.username) = 256
    /\ Len(call.auth.password) = 0
    /\ Entry(2).bytes = <<5, 0>>
    /\ handle.kind = "Socks5Listener"
    /\ result.ok

\* C7: when the proxy selects method 2, a username of 0 or more than 255 bytes
\* fails with InvalidUsername whatever the password is; with a username of
\* 1..255 bytes a password of 0 or more than 255 bytes fails with
\* InvalidPassword; neither writes any byte of the sub-auth packet; lengths 1
\* and 255 pass for both fields and the packet is written.
C7_CredentialLengths ==
    (/\ call.proto = 5
     /\ call.auth.kind = "Password"
     /\ Entry(2).done
     /\ Entry(2).bytes = <<5, 2>>
     /\ pc # "auth_write") =>
        LET ulen == Len(call.auth.username)
            plen == Len(call.auth.password)
            Rejected(e) ==
                /\ result.inner = e
                /\ pc = "done"
                /\ Len(wire) = 2
                /\ AtIndex("auth") = {}
        IN  /\ ulen \notin 1..255 => Rejected("InvalidUsername")
            /\ (ulen \in 1..255 /\ plen \notin 1..255) => Rejected("InvalidPassword")
            /\ (ulen \in 1..255 /\ plen \in 1..255) =>
                  /\ result.inner \notin {"InvalidUsername", "InvalidPassword"}
                  /\ Len(wire) >= 3
                  /\ wire[3].at = "auth"
                  /\ wire[3].op = "write"

C7_Witness ==
    /\ call.auth.kind = "Password"
    /\ Len(call.auth.username) = 256
    /\ Len(call.auth.password) = 0
    /\ Entry(2).bytes = <<5, 2>>
    /\ result.inner = "InvalidUsername"
    /\ Len(wire) = 2

\* C8: for a username u and a password p of 1..255 bytes the sub-auth packet
\* is 01, len(u), u, len(p), p: 3 + len(u) + len(p) bytes with the two length
\* fields in place, sent in one write (user/pass gives
\* 01 04 75 73 65 72 04 70 61 73 73).
C8_AuthPacketLayout ==
    call.proto = 5 =>
        /\ Cardinality(AtIndex("auth")) <= 1
        /\ \A i \in AtIndex("auth") :
              LET b == wire[i].bytes
                  u == call.auth.username
                  p == call.auth.password
              IN  /\ wire[i].op = "write"
                  /\ b = <<1, Len(u)>> \o u \o <<Len(p)>> \o p
                  /\ Len(b) = 3 + Len(u) + Len(p)
                  /\ Byte(b, 2) = Len(u)
                  /\ Byte(b, 3 + Len(u)) = Len(p)
                  /\ (u = StrUser /\ p = StrPass) =>
                        b = <<1, 4, 117, 115, 101, 114, 4, 112, 97, 115, 115>>

C8_Witness ==
    /\ call.auth = AuthPassword(StrUser, StrPass)
    /\ Len(wire) >= 3
    /\ wire[3].at = "auth"
    /\ wire[3].done
    /\ wire[3].bytes = <<1, 4, 117, 115, 101, 114, 4, 112, 97, 115, 115>>

\* C9: the 2-byte sub-auth reply (version, status): version # 1 gives
\* InvalidResponseVersion, whatever the status; version 1 with status # 0
\* gives FailedPasswordAuth, of transport kind permission-denied; only (1, 0)
\* lets the handshake go on; after a sub-auth failure the request frame is
\* never written.
C9_AuthReplyClassification ==
    (call.proto = 5 /\ Entry(4).at = "auth_reply" /\ Entry(4).done) =>
        LET v == Byte(wire[4].bytes, 1)
            st == Byte(wire[4].bytes, 2)
            Stops(e) == Len(wire) = 4 /\ pc = "done" /\ result.inner = e
        IN  /\ v # 1 => Stops("InvalidResponseVersion")
            /\ (v = 1 /\ st # 0) =>
                  Stops("FailedPasswordAuth") /\ result.kind = "PermissionDenied"
            /\ (v = 1 /\ st = 0) =>
                  /\ result.inner # "FailedPasswordAuth"
                  /\ Len(wire) = 4 =>
                        \/ pc = "request_write" /\ result = Pending
                        \/ pc = "done" /\ result.inner = "InvalidDomainLength"
            /\ (v # 1 \/ st # 0) => AtIndex("request") = {}

C9_Witness ==
    /\ call.auth = AuthPassword(StrUser, StrPass)
    /\ Len(wire) = 4
    /\ wire[2].bytes = <<5, 2>>
    /\ wire[3].bytes = <<1, 4, 117, 115, 101, 114, 4, 112, 97, 115, 115>>
    /\ wire[4].bytes = <<1, 1>>
    /\ result = [ok |-> FALSE, kind |-> "PermissionDenied", inner |-> "FailedPasswordAuth"]

\* C10: the SOCKS5 request frame is 05, CMD, 00 followed by the encoded
\* target, with CMD 1 for connect, 2 for bind and 3 for UDP associate, sent in
\* one write of 3 + encoded-address bytes (connect to 1.2.3.4:80 writes
\* 05 01 00 01 01 02 03 04 00 50).
C10_RequestFrame ==
    call.proto = 5 =>
        /\ Cardinality(AtIndex("request")) <= 1
        /\ \A i \in AtIndex("request") :
              LET b == wire[i].bytes
                  cmd == CASE call.api = "connect" -> 1
                           [] call.api = "bind" -> 2
                           [] call.api = "udp" -> 3
                  enc == write_addr(MAX_ADDR_LEN, call.target)
              IN  /\ wire[i].op = "write"
                  /\ enc.res.ok
                  /\ Len(b) = 3 + Len(enc.bytes)
                  /\ Byte(b, 1) = 5
                  /\ Byte(b, 2) = cmd
                  /\ Byte(b, 3) = 0
                  /\ Drop(b, 3) = enc.bytes
                  /\ (call.api = "connect" /\ call.target = IpV4(<<1, 2, 3, 4>>, 80))
                        => b = <<5, 1, 0, 1, 1, 2, 3, 4, 0, 80>>

C10_Witness ==
    /\ call.api = "connect"
    /\ call.target = IpV4(<<1, 2, 3, 4>>, 80)
    /\ \E i \in AtIndex("request") :
          wire[i].done /\ wire[i].bytes = <<5, 1, 0, 1, 1, 2, 3, 4, 0, 80>>

\* the value of a codec function is the error e, and carries no address
CodecFails(e) ==
    /\ ~applied.out.res.ok
    /\ applied.out.res.inner = e
    /\ applied.out.addr = NoAddr

\* C11: read_response classifies a reply in this order: version # 5 gives
\* InvalidResponseVersion; REP 1 UnknownServerFailure, 2 ServerRefusedByRuleSet,
\* 3 ServerNetworkUnreachable, 4 ServerHostUnreachable, 5 ConnectionRefused,
\* 6 ServerTTLExpired, 7 ServerCmdNotSupported, 8 ServerAddressNotSupported,
\* any REP outside 0..8 UnknownServerFailure; with REP 0 a reserved byte # 0
\* gives InvalidReservedByte; only then is the address decoded.  A reply with
\* a non-zero REP and a non-zero reserved byte reports the REP error, and the
\* reserved byte is not read.
C11_ReplyClassification ==
    applied.fn = "read_response" =>
        LET b == applied.bytes
            out == applied.out
            v == Byte(b, 1)
            r == Byte(b, 2)
            z == Byte(b, 3)
        IN  /\ (Len(b) >= 1 /\ v # 5) =>
                  CodecFails("InvalidResponseVersion") /\ out.used = 1
            /\ (Len(b) >= 2 /\ v = 5 /\ r # 0) =>
                  /\ out.used = 2
                  /\ r = 1 => CodecFails("UnknownServerFailure")
                  /\ r = 2 => CodecFails("ServerRefusedByRuleSet")
                  /\ r = 3 => CodecFails("ServerNetworkUnreachable")
                  /\ r = 4 => CodecFails("ServerHostUnreachable")
                  /\ r = 5 => CodecFails("ConnectionRefused")
                  /\ r = 6 => CodecFails("ServerTTLExpired")
                  /\ r = 7 => CodecFails("ServerCmdNotSupported")
                  /\ r = 8 => CodecFails("ServerAddressNotSupported")
                  /\ r \notin 0..8 => CodecFails("UnknownServerFailure")
            /\ (Len(b) >= 3 /\ v = 5 /\ r = 0 /\ z # 0) =>
                  CodecFails("InvalidReservedByte") /\ out.used = 3
            /\ (Len(b) >= 3 /\ v = 5 /\ r = 0 /\ z = 0) =>
                  LET a == read_addr(Drop(b, 3))
                  IN  /\ out.res = a.res
                      /\ out.addr = a.addr
                      /\ out.used = 3 + a.used
                      /\ out.res.inner \in
                            {"none", "MalformedDomain", "SOCKS5InvalidAddressType"}

C11_Witness ==
    /\ applied.fn = "read_response"
    /\ applied.bytes = <<5, 2, 1>> \o ReplyAddr
    /\ applied.out.res.inner = "ServerRefusedByRuleSet"
    /\ applied.out.used = 2

\* C12: write_addr returns the number of bytes it wrote and writes: for an
\* IPv4 endpoint 01, the 4 address bytes, the port big-endian (7 bytes); for an
\* IPv6 endpoint 04, the 16 address bytes, the port (19 bytes); for a domain of
\* N bytes, N in 1..255: 03, N, the N bytes, the port (N + 4 bytes).  A domain
\* of 0 bytes or of more than 255 fails with InvalidDomainLength; 1 and 255
\* succeed.
C12_AddressEncoding ==
    applied.fn = "write_addr" =>
        LET t == applied.arg
            out == applied.out
            n == Len(t.host)
            port == <<t.port \div 256, t.port % 256>>
            Wrote(bytes, count) ==
                /\ out.res.ok
                /\ out.bytes = bytes
                /\ out.len = count
                /\ Len(out.bytes) = count
        IN  /\ t.kind = "V4" => Wrote(<<1>> \o t.host \o port, 7)
            /\ t.kind = "V6" => Wrote(<<4>> \o t.host \o port, 19)
            /\ (t.kind = "Domain" /\ n \in 1..255) =>
                  Wrote(<<3, n>> \o t.host \o port, n + 4)
            /\ (t.kind = "Domain" /\ n \notin 1..255) =>
                  /\ ~out.res.ok
                  /\ out.res.inner = "InvalidDomainLength"
                  /\ out.res.kind = "InvalidInput"
            /\ t = Domain(<<97>>, 80) => out.bytes = <<3, 1, 97, 0, 80>>
            /\ t = IpV4(<<1, 2, 3, 4>>, 8080) => out.bytes = <<1, 1, 2, 3, 4, 31, 144>>

C12_Witness ==
    /\ applied.fn = "write_addr"
    /\ applied.arg = Domain(Rep(255, 97), 65535)
    /\ applied.out.res.ok
    /\ applied.out.len = 259

C14_AddressDecoding ==
    (applied.fn = "read_addr" /\ Len(applied.bytes) >= 1) =>
        LET b == applied.bytes
            out == applied.out
            n == Byte(b, 2)
            name == SubSeq(b, 3, 2 + n)
        IN  /\ b[1] \notin {1, 3, 4} =>
                  CodecFails("SOCKS5InvalidAddressType") /\ out.used = 1
            /\ (b[1] = 1 /\ Len(b) >= 7) =>
                  /\ out.res.ok
                  /\ out.addr = IpV4(<<b[2], b[3], b[4], b[5]>>, b[6] * 256 + b[7])
                  /\ out.used = 7
            /\ (b[1] = 4 /\ Len(b) >= 19) =>
                  /\ out.res.ok
                  /\ out.addr = IpV6(SubSeq(b, 2, 17), b[18] * 256 + b[19])
                  /\ out.used = 19
            /\ (b[1] = 3 /\ Len(b) >= 2 + n) =>
                  /\ ~IsUtf8(name) => CodecFails("MalformedDomain") /\ out.used = 2 + n
                  /\ out.res.ok =>
                        /\ IsUtf8(name)
                        /\ out.addr = Domain(name, b[3 + n] * 256 + b[4 + n])
                        /\ out.used = 4 + n
                  /\ (IsUtf8(name) /\ Len(b) >= 4 + n) => out.res.ok
                  /\ name \in {<<195, 40>>, <<U8Max>>, <<97, U8Max>>, <<237, 160, 128>>}
                        => CodecFails("MalformedDomain")
                  /\ (name \in {<<>>, <<97>>, <<195, 169>>, <<226, 130, 172>>}
                      /\ Len(b) >= 4 + n) => out.res.ok

C14_Witness ==
    /\ applied.fn = "read_addr"
    /\ applied.bytes = <<3, 2, 195, 40, 0, 80, 9, 9>>
    /\ applied.out.res.inner = "MalformedDomain"
    /\ applied.out.used = 4

\* C15: on every path that places a domain name on the wire the domain's
\* length was first checked to lie in 1..255: no request written to the proxy,
\* SOCKS4A or SOCKS5, carries a Domain target of 0 or of more than 255 bytes.
C15_DomainLengthChecked ==
    \A i \in DOMAIN wire :
        (/\ wire[i].op = "write"
         /\ wire[i].at \in {"request", "request4"}
         /\ call.target.kind = "Domain")
            => Len(call.target.host) \in 1..U8Max

\* a SOCKS4A connect request that carries an empty domain name
C15_Witness ==
    /\ call.proto = 4
    /\ call.api = "connect"
    /\ call.target = Domain(<<>>, 80)
    /\ call.userid = <<>>
    /\ Len(wire) >= 1
    /\ wire[1].done
    /\ wire[1].bytes = <<4, 1, 0, 80, 0, 0, 0, 1, 0, 0>>

\* the method reply, and the sub-auth reply if there is one, were read and
\* accepted, and nothing else happened on the stream
NegotiationCompleted ==
    /\ \A i \in DOMAIN Hs : Hs[i].done
    /\ \/ /\ HsTags = SubSeq(OrderNoAuth, 1, 2)
          /\ Hs[2].bytes = <<5, 0>>
       \/ /\ HsTags = SubSeq(OrderAuth, 1, 4)
          /\ call.auth.kind = "Password"
          /\ Hs[2].bytes = <<5, 2>>
          /\ Hs[4].bytes = <<1, 0>>

\* C16: a Domain target is accepted as it is when the call starts; for a
\* SOCKS5 connect or bind a Domain of 0 or of more than 255 bytes fails with
\* InvalidDomainLength exactly when the request is encoded: after method
\* negotiation (and sub-auth, if selected) completed on the stream, and with
\* no byte of the request frame written.
C16_DomainCheckedAtEncode ==
    (/\ call.proto = 5
     /\ call.target.kind = "Domain"
     /\ Len(call.target.host) \notin 1..U8Max) =>
        /\ AtIndex("request") = {}
        /\ AtIndex("response") = {}
        /\ handle = NoHandle
        /\ result.inner = "InvalidDomainLength" =>
              /\ pc = "done"
              /\ result.kind = "InvalidInput"
              /\ NegotiationCompleted
        /\ (pc = "done" /\ NegotiationCompleted) =>
              result.inner = "InvalidDomainLength"
        /\ wire = <<>> => (pc = "negotiate_write" \/ result.inner \in {"none", "NoResolveSocketAddrs"})

C16_Witness ==
    /\ call.proto = 5
    /\ call.api = "bind"
    /\ call.target = Domain(Rep(U8Max + 1, 97), 80)
    /\ call.auth = AuthPassword(StrUser, StrPass)
    /\ Len(wire) = 4
    /\ wire[4].bytes = <<1, 0>>
    /\ result.inner = "InvalidDomainLength"

\* C17: the SOCKS4 request is, for an IPv4 target, 04, CD, the port
\* big-endian, the 4 address bytes, the userid, 00, with no domain block
\* (9 + len(userid) bytes); for a domain target, 04, CD, the port, 00 00 00 01,
\* the userid, 00, the domain bytes, 00; CD is 1 for connect and 2 for bind;
\* the frame is sent in one write (connect to 93.184.216.34:80 with an empty
\* userid writes 04 01 00 50 5D B8 D8 22 00).
C17_Socks4RequestFrame ==
    call.proto = 4 =>
        /\ Cardinality(AtIndex("request4")) <= 1
        /\ \A i \in AtIndex("request4") :
              LET b == wire[i].bytes
                  t == call.target
                  cd == IF call.api = "connect" THEN 1 ELSE 2
                  port == <<t.port \div 256, t.port % 256>>
              IN  /\ i = 1
                  /\ wire[i].op = "write"
                  /\ t.kind \in {"V4", "Domain"}
                  /\ t.kind = "V4" =>
                        /\ b = <<4, cd>> \o port \o t.host \o call.userid \o <<0>>
                        /\ Len(b) = 9 + Len(call.userid)
                  /\ t.kind = "Domain" =>
                        b = <<4, cd>> \o port \o <<0, 0, 0, 1>> \o call.userid \o <<0>>
                            \o t.host \o <<0>>
                  /\ (/\ call.api = "connect"
                      /\ t = IpV4(<<93, 184, 216, 34>>, 80)
                      /\ call.userid = <<>>)
                        => b = <<4, 1, 0, 80, 93, 184, 216, 34, 0>>

C17_Witness ==
    /\ call.proto = 4
    /\ call.api = "bind"
    /\ call.userid = <<117>>
    /\ call.target = Domain(<<97, 46, 105, 111>>, 8080)
    /\ Len(wire) >= 1
    /\ wire[1].done
    /\ wire[1].bytes = <<4, 2, 31, 144, 0, 0, 0, 1, 117, 0, 97, 46, 105, 111, 0>>

\* C18: a SOCKS4 connect or bind to an IPv6 endpoint fails, once the proxy is
\* connected, with Socks4NoIPv6 (transport kind invalid-input); no byte of a
\* request is written and no reply is read.
C18_Socks4NoIPv6 ==
    [][ (call'.proto = 4 /\ call'.target.kind = "V6") =>
          /\ wire' = <<>>
          /\ handle' = NoHandle
          /\ pc = "request4_write" =>
                /\ pc' = "done"
                /\ result' = [ok |-> FALSE, kind |-> "InvalidInput",
                              inner |-> "Socks4NoIPv6"] ]_vars

C18_Witness ==
    /\ call.proto = 4
    /\ call.api = "bind"
    /\ call.target.kind = "V6"
    /\ pc = "done"
    /\ result.inner = "Socks4NoIPv6"
    /\ wire = <<>>

\* the last operation the library made on the stream
LastLibraryOp ==
    IF LibraryOps = <<>> THEN StreamOp("none", "none", <<>>, FALSE)
    ELSE LibraryOps[Len(LibraryOps)]

\* C19: an 8-byte SOCKS4 reply is classified in this order: first byte # 0
\* gives InvalidResponseVersion; CD 90 is success; CD 91 gives
\* ConnectionRefused; CD 92 and 93 give RejectedRequestID; any other CD gives
\* UnknownResponseCode.  On success the handle's bound address is the reply's
\* DSTIP and big-endian DSTPORT as they are (00 5A 00 50 00 00 00 00 gives
\* 0.0.0.0:80: the proxy's IP is not put in its place).
C19_Socks4ReplyClassification ==
    (/\ call.proto = 4
     /\ LastLibraryOp.at \in {"response4", "accept_reply"}
     /\ LastLibraryOp.done) =>
        LET b == LastLibraryOp.bytes
            Fails(e) == result.inner = e /\ handle = NoHandle /\ ~result.ok
        IN  /\ Len(b) = 8
            /\ b[1] # 0 => Fails("InvalidResponseVersion")
            /\ (b[1] = 0 /\ b[2] = 90) =>
                  /\ result.ok
                  /\ handle.kind \in {"Socks4Stream", "Socks4Listener"}
                  /\ handle.proxy_addr =
                        IpV4(<<b[5], b[6], b[7], b[8]>>, b[3] * 256 + b[4])
            /\ (b[1] = 0 /\ b[2] = 91) => Fails("ConnectionRefused")
            /\ (b[1] = 0 /\ b[2] \in {92, 93}) => Fails("RejectedRequestID")
            /\ (b[1] = 0 /\ b[2] \notin 90..93) => Fails("UnknownResponseCode")
            /\ b = <<0, 90, 0, 80, 0, 0, 0, 0>> =>
                  handle.proxy_addr = IpV4(<<0, 0, 0, 0>>, 80)

C19_Witness ==
    /\ call.proto = 4
    /\ call.api = "connect"
    /\ Len(wire) = 2
    /\ wire[2].bytes = <<0, 90, 0, 80, 0, 0, 0, 0>>
    /\ handle = [kind |-> "Socks4Stream", proxy_addr |-> IpV4(<<0, 0, 0, 0>>, 80),
                 udp_local |-> NoAddr, udp_peer |-> NoAddr]

\* what read_response makes of the reply bytes of a stream operation
Classified(e) ==
    IF call.proto = 5 THEN read_response(e.bytes)
    ELSE IF Len(e.bytes) < 8
    THEN [res |-> IoError("UnexpectedEof"), addr |-> NoAddr]
    ELSE read_response4(e.bytes)

\* C20: BIND has two phases in SOCKS4 and SOCKS5: bind writes the request and
\* reads exactly one reply, whose address is the listener's bound address;
\* accept writes nothing and reads exactly one more reply on the same stream,
\* classified as the first was; on success the handle accept returns has the
\* address of the second reply in place of the first.
C20_BindTwoPhase ==
    LET acc == AtIndex("accept_reply")
        first == AtIndex("response") \cup AtIndex("response4")
    IN  /\ handle.kind \in {"Socks5Listener", "Socks4Listener"} =>
              /\ call.api = "bind"
              /\ acc = {}
              /\ first = {Len(wire)}
              /\ wire[Len(wire)].op = "read" /\ wire[Len(wire)].done
              /\ wire[Len(wire) - 1].op = "write"
              /\ wire[Len(wire) - 1].at \in {"request", "request4"}
              /\ wire[Len(wire) - 1].bytes[2] = 2
              /\ Classified(wire[Len(wire)]).res.ok
              /\ handle.proxy_addr = Classified(wire[Len(wire)]).addr
        /\ Cardinality(acc) <= 1
        /\ \A i \in acc :
              /\ call.api = "bind"
              /\ wire[i].op = "read"
              /\ first = {i - 1}
              /\ wire[i - 1].done
              /\ Classified(wire[i - 1]).res.ok
              /\ \A j \in DOMAIN wire : j > i => wire[j].at = "payload"
              /\ result = Classified(wire[i]).res
              /\ IF result.ok
                 THEN /\ handle.kind \in StreamKinds
                      /\ handle.proxy_addr = Classified(wire[i]).addr
                 ELSE handle = NoHandle

C20_Witness ==
    /\ call.proto = 5
    /\ Len(wire) = 5
    /\ wire[4].bytes = <<5, 0, 0>> \o ReplyAddr
    /\ wire[5].at = "accept_reply"
    /\ wire[5].bytes = <<5, 0, 0, 4>> \o Rep(15, 0) \o <<1, 1, 187>>
    /\ handle = [kind |-> "Socks5Stream",
                 proxy_addr |-> IpV6(Rep(15, 0) \o <<1>>, 443),
                 udp_local |-> NoAddr, udp_peer |-> NoAddr]

\* C21: for a SOCKS4 listener whose first reply carried IP 0.0.0.0 the
\* reported proxy address is the IP of the proxy connection's peer with the
\* port of the reply; for any other reply IP it is the reply's IP and port,
\* unchanged.
C21_Socks4ProxyAddr ==
    applied.fn = "proxy_addr" =>
        \A i \in AtIndex("response4") :
            LET b == wire[i].bytes
                ip == SubSeq(b, 5, 8)
                port == b[3] * 256 + b[4]
                peer == applied.peer
                out == applied.out
            IN  IF ip = <<0, 0, 0, 0>>
                THEN IF peer.res.ok
                     THEN /\ out.res.ok
                          /\ out.addr.kind = peer.addr.kind
                          /\ out.addr.host = peer.addr.host
                          /\ out.addr.port = port
                     ELSE out.res = peer.res
                ELSE out.res.ok /\ out.addr = IpV4(ip, port)

C21_Witness ==
    /\ applied.fn = "proxy_addr"
    /\ wire[2].bytes = <<0, 90, 0, 80, 0, 0, 0, 0>>
    /\ applied.peer.addr = IpV4(<<10, 0, 0, 1>>, 1080)
    /\ applied.out.addr = IpV4(<<10, 0, 0, 1>>, 80)
    /\ handle.kind = "Socks4Listener"

ListenerKinds == {"Socks5Listener", "Socks4Listener"}

\* C22: a listener is one-shot: accept consumes it whether it succeeds or
\* fails, so a listener yields at most one stream handle, and after a failed
\* accept neither the listener nor a handle is left to use; nothing more is
\* read or written on the stream.
C22_ListenerOneShot ==
    [][ /\ (handle.kind \in ListenerKinds /\ wire' # wire) =>
              /\ wire' = Append(wire, wire'[Len(wire')])
              /\ wire'[Len(wire')].at = "accept_reply"
              /\ handle'.kind \notin ListenerKinds
              /\ IF result'.ok THEN handle'.kind \in StreamKinds
                 ELSE handle' = NoHandle
        /\ AtIndex("accept_reply") # {} =>
              /\ AtIndex("accept_reply")' = AtIndex("accept_reply")
              /\ handle'.kind \notin ListenerKinds
              /\ handle = NoHandle => UNCHANGED <<wire, result, handle>> ]_vars

C22_Witness ==
    /\ call.proto = 4
    /\ Len(wire) = 3
    /\ wire[3].at = "accept_reply"
    /\ wire[3].bytes = <<0, 91, 0, 80, 0, 0, 0, 0>>
    /\ result.inner = "ConnectionRefused"
    /\ handle = NoHandle

\* C23: UDP ASSOCIATE always sends the request 05 03 00 01 00 00 00 00 00 00,
\* whatever local endpoint the caller passed; the UDP socket is bound and
\* connected only after the handshake on the stream succeeded, and it is
\* connected to exactly the address the reply carried; when the handshake
\* fails there is no UDP socket.
C23_UdpAssociate ==
    (call.proto = 5 /\ call.api = "udp") =>
        /\ call.local \in LocalAddrs
        /\ \A i \in AtIndex("request") :
              wire[i].bytes = <<5, 3, 0, 1, 0, 0, 0, 0, 0, 0>>
        /\ handle.kind \in {"none", "Socks5Datagram"}
        /\ handle.kind = "Socks5Datagram" =>
              /\ result.ok
              /\ HsTags \in {OrderNoAuth, OrderAuth}
              /\ \A i \in DOMAIN wire : wire[i].done
              /\ LET reply == wire[Len(wire)]
                 IN  /\ reply.at = "response"
                     /\ read_response(reply.bytes).res.ok
                     /\ handle.udp_peer = ReplyAddress(reply.bytes)
                     /\ handle.proxy_addr = ReplyAddress(reply.bytes)
              /\ handle.udp_local = call.local
        /\ (\E i \in DOMAIN wire : ~wire[i].done
                \/ (wire[i].op = "read" /\ ~Classified(wire[i]).res.ok
                        /\ wire[i].at = "response")) =>
              /\ handle = NoHandle
              /\ ~result.ok

C23_Witness ==
    /\ call.api = "udp"
    /\ call.local = IpV4(<<127, 0, 0, 1>>, 15410)
    /\ Len(wire) = 4
    /\ wire[3].bytes = <<5, 3, 0, 1, 0, 0, 0, 0, 0, 0>>
    /\ wire[4].bytes = <<5, 0, 0>> \o ReplyAddr
    /\ handle.kind = "Socks5Datagram"
    /\ handle.udp_local = IpV4(<<127, 0, 0, 1>>, 15410)
    /\ handle.udp_peer = IpV4(<<127, 0, 0, 1>>, 8080)

\* the transport kind the table of section 7 gives a variant ("unlisted" for
\* the variants of its invalid-data row)
TableKind(variant) ==
    CASE variant \in {"InvalidSocksAddress", "InvalidPortValue",
                      "NoResolveSocketAddrs", "Socks4NoIPv6",
                      "InvalidDomainLength", "InvalidUsername",
                      "InvalidPassword", "WinUDP4GiBLimit"} -> "InvalidInput"
      [] variant \in {"UnknownResponseCode", "UnknownServerFailure"} -> "Other"
      [] variant \in {"ConnectionRefused", "ServerRefusedByRuleSet"}
            -> "ConnectionRefused"
      [] variant \in {"ServerNetworkUnreachable", "ServerHostUnreachable"}
            -> "ConnectionAborted"
      [] variant = "ServerTTLExpired" -> "Interrupted"
      [] variant \in {"ServerCmdNotSupported", "ServerAddressNotSupported",
                      "NoAuthMethods", "UnknownAuthMethod"} -> "Unsupported"
      [] variant \in {"RejectedRequestID", "FailedPasswordAuth"}
            -> "PermissionDenied"
      [] OTHER -> "unlisted"

TransportKinds ==
    {"InvalidInput", "InvalidData", "Other", "ConnectionRefused",
     "ConnectionAborted", "Interrupted", "Unsupported", "PermissionDenied"}

\* C29: the conversion of a protocol error to a transport error is total
\* (every variant gets a transport kind), depends on the variant alone (two
\* values of one variant with different fields get the same kind), and for the
\* variants of the table gives the kind the table lists.
C29_ErrorKindTable ==
    [][ applied'.fn = "into_io" =>
          LET value == applied'.arg
              out == applied'.out
          IN  /\ ~out.ok
              /\ out.kind \in TransportKinds
              /\ out.inner = value.variant
              /\ TableKind(value.variant) # "unlisted" =>
                    out.kind = TableKind(value.variant)
              /\ (applied.fn = "into_io" /\ applied.arg.variant = value.variant) =>
                    out.kind = applied.out.kind ]_vars

C29_Witness ==
    /\ applied.fn = "into_io"
    /\ applied.arg = [variant |-> "ServerTTLExpired", field |-> U8Max]
    /\ applied.out.kind = "Interrupted"

InvalidDataRow ==
    {"InvalidResponseVersion", "MalformedDomain", "SOCKS5InvalidAddressType",
     "InvalidReservedByte", "InvalidReservedBytes", "InvalidFragmentID"}

\* C30: each of InvalidResponseVersion, MalformedDomain,
\* SOCKS5InvalidAddressType, InvalidReservedByte, InvalidReservedBytes and
\* InvalidFragmentID is surfaced with the transport kind invalid-data; a
\* SOCKS5 reply of version 5 and REP 0 whose reserved byte is not zero yields
\* an error of kind invalid-data.
C30_InvalidDataRow ==
    /\ (applied.fn = "into_io" /\ applied.arg.variant \in InvalidDataRow) =>
          applied.out.kind = "InvalidData"
    /\ (/\ applied.fn = "read_response"
        /\ Len(applied.bytes) >= 3
        /\ applied.bytes[1] = 5
        /\ applied.bytes[2] = 0
        /\ applied.bytes[3] # 0) =>
          /\ ~applied.out.res.ok
          /\ applied.out.res.kind = "InvalidData"

C30_Witness ==
    /\ applied.fn = "read_response"
    /\ applied.bytes = <<5, 0, 1>> \o ReplyAddr
    /\ applied.out.res.inner = "InvalidReservedByte"
    /\ applied.out.res.kind = "Other"

\* the address field of a target, written out from the wire layout
AddressField(t) ==
    LET port == <<t.port \div 256, t.port % 256>>
    IN  CASE t.kind = "V4" -> <<1>> \o t.host \o port
          [] t.kind = "V6" -> <<4>> \o t.host \o port
          [] t.kind = "Domain" -> <<3, Len(t.host)>> \o t.host \o port

\* C24: every send_to emits exactly one datagram, 00 00 00 followed by the
\* encoded target and the payload: RSV and FRAG are zero, the header has 10
\* bytes for an IPv4 target, 22 for an IPv6 target and 7 + len(domain) for a
\* domain; a target that fails encoding (InvalidDomainLength) sends nothing.
C24_SendToDatagram ==
    applied.fn = "send_to" =>
        LET t == applied.arg
            payload == applied.bytes
            out == applied.out
            hlen == CASE t.kind = "V4" -> 10
                      [] t.kind = "V6" -> 22
                      [] t.kind = "Domain" -> 7 + Len(t.host)
        IN  IF t.kind = "Domain" /\ Len(t.host) \notin 1..255
            THEN /\ ~out.res.ok
                 /\ out.res.inner = "InvalidDomainLength"
                 /\ out.datagrams = <<>>
            ELSE /\ ~out.res.ok => out.datagrams = <<>>
                 /\ out.res.ok =>
                       /\ Len(out.datagrams) = 1
                       /\ out.datagrams[1] = <<0, 0, 0>> \o AddressField(t) \o payload
                       /\ Len(out.datagrams[1]) = hlen + Len(payload)

C24_Witness ==
    /\ applied.fn = "send_to"
    /\ applied.arg = IpV4(<<127, 0, 0, 1>>, 15411)
    /\ applied.bytes = HelloWorld
    /\ applied.out.datagrams =
          << <<0, 0, 0, 1, 127, 0, 0, 1, 60, 51>> \o HelloWorld >>

\* C25: recv_from checks a datagram in a fixed order: reserved bytes other
\* than zero fail with InvalidReservedBytes, then a fragment id other than
\* zero with InvalidFragmentID, then an address type outside {1, 3, 4} with
\* SOCKS5InvalidAddressType; the earliest failing check decides the error and
\* an error returns no length and no address.
C25_DatagramChecks ==
    applied.fn = "recv_from" =>
        LET d == applied.bytes
            out == applied.out
            Fails(e) == ~out.res.ok /\ out.res.inner = e
        IN  /\ (Len(d) >= 2 /\ <<d[1], d[2]>> # <<0, 0>>) =>
                  Fails("InvalidReservedBytes")
            /\ (Len(d) >= 3 /\ Take(d, 2) = <<0, 0>> /\ d[3] # 0) =>
                  Fails("InvalidFragmentID")
            /\ (Len(d) >= 4 /\ Take(d, 3) = <<0, 0, 0>> /\ d[4] \notin {1, 3, 4}) =>
                  Fails("SOCKS5InvalidAddressType")
            /\ ~out.res.ok => out.n = 0 /\ out.addr = NoAddr

C25_Witness ==
    /\ applied.fn = "recv_from"
    /\ applied.bytes = <<1, 0, 1, 2, 127, 0, 0, 1, 31, 144>> \o HelloWorld
    /\ applied.out.res.inner = "InvalidReservedBytes"
    /\ applied.out.n = 0

\* C26: for a datagram D = H ++ P with a valid header H of h bytes and a
\* caller buffer of at least len(P) bytes, recv_from returns len(D) - h and
\* the address decoded from H, and the first len(P) bytes of the buffer are P
\* in order: when D fits the 263-byte header array, when the payload is split
\* between that array and the buffer, and when the bytes moved within the
\* buffer outnumber the distance they move.
C26_PayloadReconstruction ==
    applied.fn \in {"recv_from", "recv_echo"} =>
        LET d == applied.bytes
            out == applied.out
            a == read_addr(Drop(d, 3))
            h == 3 + a.used
        IN  (/\ Len(d) >= 3
             /\ Take(d, 3) = <<0, 0, 0>>
             /\ a.res.ok
             /\ Len(applied.buf) >= Len(d) - h) =>
                /\ out.res.ok
                /\ out.n = Len(d) - h
                /\ out.addr = a.addr
                /\ Take(out.buf, Len(d) - h) = Drop(d, h)
                /\ Len(out.buf) = Len(applied.buf)
                /\ out.spilled = 0

C26_Witness ==
    /\ applied.fn = "recv_echo"
    /\ applied.arg = Domain(Rep(U8Max, 97), 65535)
    /\ applied.payload = Msg(MAX_ADDR_LEN + 100)
    /\ Len(applied.bytes) = 622
    /\ Len(applied.buf) = MAX_ADDR_LEN + 100
    /\ applied.out.n = MAX_ADDR_LEN + 100
    /\ applied.out.buf = Msg(MAX_ADDR_LEN + 100)

\* C27: a datagram emitted by send_to(payload, T) and returned unchanged is
\* delivered by recv_from, into a buffer that holds the payload, as
\* (len(payload), T') with the payload preserved, where T' has T's variant,
\* address or domain bytes and port; T' is T itself unless T is an IPv6
\* socket address with a flow info or scope id other than zero, which come
\* back as zero.
C27_EchoRoundTrip ==
    (applied.fn = "recv_echo" /\ Len(applied.buf) >= Len(applied.payload)) =>
        LET t == applied.arg
            payload == applied.payload
            out == applied.out
        IN  /\ out.res.ok
            /\ out.n = Len(payload)
            /\ Take(out.buf, Len(payload)) = payload
            /\ out.addr.kind = t.kind
            /\ out.addr.host = t.host
            /\ out.addr.port = t.port
            /\ t.kind = "V6" => out.addr = SocketAddrV6(t.host, t.port, 0, 0)
            /\ (t.kind = "V6" => t.flowinfo = 0 /\ t.scope_id = 0) => out.addr = t

\* C27 as stated: the echo is delivered as (len(payload), T) for every
\* encodable target T
C27_EchoReturnsTarget ==
    (applied.fn = "recv_echo" /\ Len(applied.buf) >= Len(applied.payload)) =>
        /\ applied.out.res.ok
        /\ applied.out.n = Len(applied.payload)
        /\ Take(applied.out.buf, Len(applied.payload)) = applied.payload
        /\ applied.out.addr = applied.arg

C27_Witness ==
    /\ applied.fn = "recv_echo"
    /\ applied.arg = IpV4(<<127, 0, 0, 1>>, 15411)
    /\ applied.payload = HelloWorld
    /\ applied.out.n = 12
    /\ applied.out.addr = IpV4(<<127, 0, 0, 1>>, 15411)
    /\ applied.out.buf = HelloWorld \o <<170>>

\* C28: on success send_to returns the number of payload bytes the caller
\* passed, len(buf); the header put in front of them is not counted.
C28_SendToReturnsPayloadLength ==
    (applied.fn = "send_to" /\ applied.out.res.ok) =>
        applied.out.n = Len(applied.bytes)

C28_Witness ==
    /\ applied.fn = "send_to"
    /\ applied.arg = IpV4(<<127, 0, 0, 1>>, 15411)
    /\ applied.bytes = HelloWorld
    /\ applied.out.res.ok
    /\ applied.out.n = 22

\* the characters of "localhost"
Localhost == <<108, 111, 99, 97, 108, 104, 111, 115, 116>>

\* C32: a text that parses as an IPv4 or bracketed IPv6 socket endpoint
\* becomes Ip; any other text is split at its rightmost ':': without a ':' it
\* fails with InvalidSocksAddress, with a right part that is not a decimal
\* 16-bit port (as u16's parser reads it) with InvalidPortValue; otherwise a
\* left part that is a bare IPv4 or IPv6 literal gives Ip and any other left
\* part gives Domain(left, port). "localhost:80" gives Domain("localhost", 80),
\* and HOST:PORT with an IPv4 literal as HOST gives Ip, never Domain.
C32_TextToTarget ==
    applied.fn = "to_target_addr" =>
        LET s == applied.bytes
            out == applied.out
            colons == {i \in DOMAIN s : s[i] = 58}
            k == IF colons = {} THEN 0
                 ELSE CHOOSE i \in colons : \A j \in colons : j <= i
            left == SubSeq(s, 1, k - 1)
            right == SubSeq(s, k + 1, Len(s))
            digits == IF right # <<>> /\ right[1] = 43 THEN Drop(right, 1) ELSE right
            IsPort == /\ digits # <<>>
                      /\ \A i \in DOMAIN digits : digits[i] \in 48..57
                      /\ NumberOf(digits, 10) <= 65535
            endpoint == ParseSocketAddrV4(s).ok \/ ParseSocketAddrV6(s).ok
            Fails(e) == ~out.res.ok /\ out.res.inner = e /\ out.addr = NoAddr
        IN  /\ endpoint => out.res.ok /\ out.addr.kind \in {"V4", "V6"}
            /\ (~endpoint /\ k = 0) => Fails("InvalidSocksAddress")
            /\ (~endpoint /\ k > 0 /\ ~IsPort) => Fails("InvalidPortValue")
            /\ (~endpoint /\ k > 0 /\ IsPort) =>
                  /\ out.res.ok
                  /\ out.addr.port = NumberOf(digits, 10)
                  /\ ParseIpv4(left).ok => out.addr = IpV4(ParseIpv4(left).value, out.addr.port)
                  /\ (~ParseIpv4(left).ok /\ ParseIpv6(left).ok) =>
                        out.addr = IpV6(ParseIpv6(left).value, out.addr.port)
                  /\ (~ParseIpv4(left).ok /\ ~ParseIpv6(left).ok) =>
                        out.addr = Domain(left, out.addr.port)
            /\ (k > 0 /\ ParseIpv4(left).ok /\ out.res.ok) => out.addr.kind = "V4"
            /\ s = Localhost \o <<58, 56, 48>> => out.addr = Domain(Localhost, 80)
            /\ s = Localhost \o <<58>> => Fails("InvalidPortValue")
            /\ s = Localhost \o <<58, 54, 53, 53, 51, 54>> => Fails("InvalidPortValue")
            /\ s = Localhost => Fails("InvalidSocksAddress")
            /\ s = <<49, 46, 50, 46, 51, 46, 52, 58, 56, 48>> => out.addr = IpV4(<<1, 2, 3, 4>>, 80)
            /\ s = <<91, 58, 58, 49, 93, 58, 52, 52, 51>> => out.addr = IpV6(Rep(15, 0) \o <<1>>, 443)
            /\ s = <<58, 58, 49, 58, 56, 48>> => out.addr = IpV6(Rep(15, 0) \o <<1>>, 80)
            /\ s = <<97, 58, 98, 58, 56, 48>> => out.addr = Domain(<<97, 58, 98>>, 80)

C32_Witness ==
    /\ applied.fn = "to_target_addr"
    /\ applied.bytes = <<97, 58, 98, 58, 56, 48>>
    /\ applied.out.addr = Domain(<<97, 58, 98>>, 80)

\* C39: every address read_addr decodes is accepted by write_addr: encoding
\* the decoded value never fails with InvalidDomainLength and reproduces the
\* bytes that were decoded, also for an ATYP 3 field whose length byte is 0.
C39_DecodedIsEncodable ==
    applied.fn = "write_back" =>
        /\ applied.out.res.ok
        /\ Take(applied.out.bytes, applied.out.len) = applied.bytes

\* the field 03 00 00 50 decodes into a domain of no bytes, which write_addr
\* refuses
C39_Witness ==
    /\ applied.fn = "write_back"
    /\ applied.bytes = <<3, 0, 0, 80>>
    /\ applied.arg = Domain(<<>>, 80)
    /\ ~applied.out.res.ok
    /\ applied.out.res.inner = "InvalidDomainLength"

\* the userid a SOCKS4 proxy parses from a request: the bytes after the 8-byte
\* fixed part up to the first 0x00
ProxyUserid(b) ==
    LET rest == Drop(b, 8)
        nuls == {i \in DOMAIN rest : rest[i] = 0}
        first == CHOOSE i \in nuls : \A j \in nuls : i <= j
    IN  [userid |-> Take(rest, first - 1), after |-> Drop(rest, first)]

\* C38: the userid a proxy parses from a SOCKS4 request (the bytes after the
\* 8-byte fixed part up to the first 0x00) is the userid the caller passed,
\* and for an IPv4 target nothing follows that terminator, also when the
\* userid itself holds a 0x00 byte.
C38_UseridAsParsed ==
    \A i \in DOMAIN wire :
        (wire[i].op = "write" /\ wire[i].at = "request4" /\ wire[i].done) =>
            LET p == ProxyUserid(wire[i].bytes)
            IN  /\ p.userid = call.userid
                /\ call.target.kind = "V4" => p.after = <<>>

\* a connect with userid "u\0v": the proxy parses "u", and "v\0" follows
C38_Witness ==
    /\ call.proto = 4
    /\ call.userid = <<117, 0, 118>>
    /\ call.target = IpV4(<<93, 184, 216, 34>>, 80)
    /\ Len(wire) >= 1
    /\ wire[1].done
    /\ ProxyUserid(wire[1].bytes) = [userid |-> <<117>>, after |-> <<118, 0>>]

\* C35: for every length of the caller's buffer and every datagram, recv_from
\* writes no byte at or beyond the end of the buffer and does not abort: the
\* shift of the received bytes and the copy of the payload left in the header
\* array stay inside the buffer, or the call returns an error.
C35_RecvFromStaysInBuffer ==
    applied.fn \in {"recv_from", "recv_echo"} =>
        /\ applied.out.spilled = 0
        /\ applied.out.res # Panicked
        /\ applied.out.res # Crashed
        /\ Len(applied.out.buf) = Len(applied.buf)
        /\ applied.out.res.ok => applied.out.n <= Len(applied.buf)

\* a 12-byte payload received into an empty buffer: the slice
\* buf[..12] is out of range
C35_Witness ==
    /\ applied.fn = "recv_echo"
    /\ applied.payload = HelloWorld
    /\ applied.buf = <<>>
    /\ applied.out.res = Panicked

\* C34: connecting to the proxy tries the resolved addresses in order and
\* returns the first stream that connects; when every attempt fails the error
\* returned is that of the last attempt alone; when the list is empty the
\* error is NoResolveSocketAddrs, of kind InvalidInput; no handshake byte is
\* written unless a connection succeeded.
C34_ConnectToProxy ==
    call.proto # 0 =>
        LET addrs == call.proxy
            n == Len(addrs)
        IN  /\ (\E i \in 1..n : addrs[i] = "ok") =>
                  /\ call.connected \in 1..n
                  /\ addrs[call.connected] = "ok"
                  /\ \A j \in 1..(call.connected - 1) : addrs[j] # "ok"
                  /\ (pc = "done" /\ ~result.ok /\ wire = <<>>) => result.inner # "none"
            /\ (n > 0 /\ \A i \in 1..n : addrs[i] # "ok") =>
                  /\ pc = "done"
                  /\ result = [ok |-> FALSE, kind |-> addrs[n], inner |-> "none"]
                  /\ call.connected = 0
            /\ n = 0 =>
                  /\ pc = "done"
                  /\ result = [ok |-> FALSE, kind |-> "InvalidInput",
                               inner |-> "NoResolveSocketAddrs"]
                  /\ call.connected = 0
            /\ wire # <<>> => call.connected > 0

\* two addresses that fail differently: the error is the second one's
C34_Witness ==
    /\ call.proto = 5
    /\ call.proxy = <<"ConnectionRefused", "TimedOut">>
    /\ pc = "done"
    /\ result.kind = "TimedOut"
    /\ wire = <<>>

\* C33: errors never reveal the password. Two password authentications that
\* differ only in the content of the password (same username, same length,
\* same answers from the proxy) return the same result, the same Error value
\* and the same message; InvalidPassword holds the password's length and
\* nothing else of it.
C33_PasswordNotRevealed ==
    applied.fn = "password_authentication" =>
        /\ \A other \in SecretPasswords :
              Len(other) = Len(applied.password) =>
                  LET o == password_authentication(applied.username, other,
                                                   applied.bytes)
                  IN  /\ o.res = applied.out.res
                      /\ o.error = applied.out.error
                      /\ o.message = applied.out.message
        /\ applied.out.res.inner = "InvalidPassword" =>
              /\ applied.out.error =
                    ErrorValue("InvalidPassword", <<>>, Len(applied.password))
              /\ applied.out.message.text = <<40, 41>>
              /\ applied.out.message.number = Len(applied.password)

\* a password of 256 bytes is refused, and the error holds 256 alone
C33_Witness ==
    /\ applied.fn = "password_authentication"
    /\ applied.username = StrUser
    /\ applied.password = Rep(U8Max + 1, 121)
    /\ applied.out.res.inner = "InvalidPassword"
    /\ applied.out.error.number = U8Max + 1

\* the sum of the sizes of a sequence of calls
RECURSIVE SumOf(_)
SumOf(s) == IF s = <<>> THEN 0 ELSE s[1] + SumOf(Tail(s))

\* the entries of the log that belong to the handshake and to accept
PhaseEntries == {i \in DOMAIN wire : wire[i].at # "payload"}

\* C36 as stated: every phase of a handshake, SOCKS4 or SOCKS5, performs
\* exactly one write and exactly one read on the proxy stream.
C36_OneReadPerPhase ==
    \A i \in PhaseEntries : Len(StreamCalls(call.proto, wire[i])) = 1

\* C36: every phase performs exactly one write. The method reply and the
\* sub-auth reply are each read by one read of 2 bytes and the SOCKS4 reply
\* by one read of 8 bytes. The SOCKS5 reply is read by a sequence of reads:
\* one byte each for version, reply code, reserved byte and ATYP, then the
\* address (4 bytes, or 16, or a length byte and that many bytes) and the
\* 2-byte port; at most 7 reads of at most 255 bytes each, 262 bytes in all,
\* which stops at the first byte that is refused.
C36_ReadsPerPhase ==
    /\ \A i, j \in PhaseEntries : i # j => wire[i].at # wire[j].at
    /\ \A i \in PhaseEntries :
          LET e == wire[i]
              b == e.bytes
              calls == StreamCalls(call.proto, e)
          IN  /\ e.op = "write" => calls = <<Len(b)>> /\ Len(b) <= AuthPacketCap
              /\ (e.op = "read" /\ e.at \in {"method_reply", "auth_reply"}) =>
                    calls = <<2>> /\ Len(b) <= 2
              /\ (e.op = "read" /\ call.proto = 4) => calls = <<8>> /\ Len(b) <= 8
              /\ (e.op = "read" /\ call.proto = 5
                    /\ e.at \in {"response", "accept_reply"}) =>
                    /\ Len(calls) \in 1..7
                    /\ \A k \in DOMAIN calls : calls[k] \in 0..U8Max
                    /\ SumOf(calls) <= MAX_ADDR_LEN + 2
                    /\ \A k \in DOMAIN calls : k <= 4 => calls[k] = 1
                    /\ e.done => SumOf(calls) = Len(b)
                    /\ (e.done /\ Len(b) > 4 /\ b[1] = 5 /\ b[2] = 0 /\ b[3] = 0) =>
                          calls = CASE b[4] = 1 -> <<1, 1, 1, 1, 4, 2>>
                                    [] b[4] = 4 -> <<1, 1, 1, 1, 16, 2>>
                                    [] b[4] = 3 /\ Len(b) = 7 + b[5] -> <<1, 1, 1, 1, 1, b[5], 2>>
                                    [] b[4] = 3 /\ Len(b) # 7 + b[5] -> <<1, 1, 1, 1, 1, b[5]>>
                                    [] OTHER -> <<1, 1, 1, 1>>

\* a reply with an IPv4 address was read by six reads
C36_Witness ==
    /\ call.proto = 5
    /\ pc = "done"
    /\ result.ok
    /\ \E i \in DOMAIN wire :
          /\ wire[i].at = "response"
          /\ wire[i].done
          /\ StreamCalls(5, wire[i]) = <<1, 1, 1, 1, 4, 2>>

\* C37: the fixed buffers are never exceeded. The SOCKS5 request and the
\* header send_to builds take at most 262 of the 263 bytes of their array
\* (MAX_ADDR_LEN + 3), the sub-auth packet at most 513 of its 515 bytes, and
\* the header of a datagram recv_from accepts is at most 262 bytes, so it lies
\* inside the 263-byte header array.
C37_BuffersSuffice ==
    /\ \A i \in DOMAIN wire :
          /\ (wire[i].op = "write" /\ wire[i].at = "request") =>
                Len(wire[i].bytes) <= 262 /\ 262 < MAX_ADDR_LEN + 3
          /\ (wire[i].op = "write" /\ wire[i].at = "auth") =>
                Len(wire[i].bytes) <= 513 /\ 513 < AuthPacketCap
    /\ (applied.fn = "send_to" /\ applied.out.res.ok) =>
          Len(applied.out.datagrams[1]) - Len(applied.bytes) <= 262
    /\ (/\ applied.fn \in {"recv_from", "recv_echo"}
        /\ applied.out.res.ok
        /\ applied.out.spilled = 0
        /\ Len(applied.bytes) <= MAX_ADDR_LEN + 3 + Len(applied.buf)) =>
          Len(applied.bytes) - applied.out.n \in 3..262

\* a datagram from a domain of 255 bytes is received: its header takes 262
\* bytes
C37_Witness ==
    /\ call.auth.kind = "Password"
    /\ \E i \in DOMAIN wire : wire[i].at = "auth" /\ Len(wire[i].bytes) = 513
    /\ applied.fn = "recv_from"
    /\ applied.out.res.ok
    /\ applied.out.n = Len(HelloWorld)
    /\ Len(applied.bytes) - applied.out.n = 262

\* the target cannot be converted
Unconvertible(r) ==
    ~r.ok /\ r.inner \in {"InvalidSocksAddress", "InvalidPortValue"}

\* C40: a target that cannot be converted to a TargetAddr (InvalidSocksAddress,
\* InvalidPortValue) makes a SOCKS4 or SOCKS5 connect or bind fail before any
\* byte is written to the proxy and before any reply is read, and makes
\* send_to fail before a datagram is handed to the socket; a failed send_to
\* leaves the relay as it was, and the next send_to on it works.
C40_UnconvertibleTarget ==
    [][ /\ (call'.given.kind = "Text" /\ ~to_target_addr(call'.given).res.ok) =>
              /\ wire' = <<>>
              /\ pc' = "done"
              /\ ~result'.ok
              /\ handle' = NoHandle
              /\ call'.connected > 0 => Unconvertible(result')
        /\ Unconvertible(result') => (wire' = <<>> /\ call'.given.kind = "Text")
        /\ (applied'.fn = "send_to" /\ applied'.given.kind = "Text"
              /\ ~to_target_addr(applied'.given).res.ok) =>
              /\ Unconvertible(applied'.out.res)
              /\ applied'.out.datagrams = <<>>
        /\ (applied'.fn = "send_to" /\ ~applied'.out.res.ok) =>
              /\ applied'.out.datagrams = <<>>
              /\ UNCHANGED <<pc, call, wire, result, handle>>
        /\ (/\ applied.fn = "send_to"
            /\ applied'.fn = "send_to"
            /\ applied'.given \in {IpV4(<<127, 0, 0, 1>>, 15411),
                                   Domain(Rep(U8Max, 97), 65535)}) =>
              \/ applied'.out.res = IoError("ConnectionRefused")
              \/ /\ applied'.out.res.ok
                 /\ Len(applied'.out.datagrams) = 1
      ]_vars

\* after a send_to to "localhost" failed, a send_to to 127.0.0.1:15411 on the
\* same relay delivers its datagram
C40_Witness ==
    /\ handle.kind = "Socks5Datagram"
    /\ applied.fn = "send_to"
    /\ applied.calls = 2
    /\ applied.out.res.ok
    /\ applied.out.datagrams = << <<0, 0, 0, 1, 127, 0, 0, 1, 60, 51>> \o HelloWorld >>

\* the failures the calls return: of a handshake or accept, and of send_to
\* and recv_from (a panic or a fault returns nothing)
Failures ==
    (IF ~result.ok /\ result # Pending THEN {result} ELSE {})
    \cup (IF /\ applied.fn \in {"send_to", "recv_from", "recv_echo"}
             /\ ~applied.out.res.ok
             /\ applied.out.res \notin {Panicked, Crashed}
          THEN {applied.out.res} ELSE {})

\* the last operation on the proxy stream is a read that met the end of the
\* stream
ReplyCutShort ==
    /\ wire # <<>>
    /\ wire[Len(wire)].op = "read"
    /\ ~wire[Len(wire)].done
    /\ wire[Len(wire)].at # "payload"

\* the datagram received ends inside its 3-byte prefix or its address field
DatagramCutShort ==
    /\ applied.fn = "recv_from"
    /\ LET d == applied.bytes
       IN  \/ Len(d) < 3
           \/ /\ d[1] = 0 /\ d[2] = 0 /\ d[3] = 0
              /\ \/ Len(d) < 4
                 \/ d[4] = 1 /\ Len(d) < 10
                 \/ d[4] = 4 /\ Len(d) < 22
                 \/ d[4] = 3 /\ (Len(d) < 5 \/ Len(d) < 5 + d[5])

\* C31 as stated: every failure a handshake, accept, send_to or recv_from
\* returns carries a protocol variant, also when a reply or a datagram ends
\* early.
C31_EveryFailureEmbedsVariant ==
    \A e \in Failures : is_io_socks2_error(e)

\* C31: every failure is an io::Error. A failure the library detects carries
\* a protocol variant, with the kind the variant is mapped to; a failure of
\* the transport is passed on as it is, with the transport's kind and no
\* variant inside: so it is for a reply that ends early and for a datagram
\* shorter than its prefix or its address field (UnexpectedEof), for a write
\* the stream refuses and for a connection or a socket that fails.
C31_FailureCarriesVariantOrTransport ==
    /\ \A e \in Failures :
          \/ is_io_socks2_error(e) /\ e.kind = ErrorKind(e.inner)
          \/ /\ e.inner = "none"
             /\ e.kind \in {"UnexpectedEof", "BrokenPipe", "ConnectionRefused",
                            "TimedOut", "AddrNotAvailable"}
    /\ (pc = "done" /\ ReplyCutShort) =>
          /\ result.kind = "UnexpectedEof"
          /\ ~is_io_socks2_error(result)
    /\ DatagramCutShort =>
          /\ applied.out.res.kind = "UnexpectedEof"
          /\ ~is_io_socks2_error(applied.out.res)

\* a datagram of two bytes arrives on a relay: recv_from fails with a bare
\* UnexpectedEof
C31_Witness ==
    /\ handle.kind = "Socks5Datagram"
    /\ applied.fn = "recv_from"
    /\ applied.bytes = <<0, 0>>
    /\ applied.out.res = [ok |-> FALSE, kind |-> "UnexpectedEof", inner |-> "none"]

====
